---- MODULE Spec2Model ----
(***************************************************************************)
(* Verification model of the solana-casino settlement code.                *)
(*                                                                         *)
(*  SpecServer : the payout server (POST /api/payout) with its in-memory   *)
(*               payoutHistory / pendingPayouts and the ledger it drives.  *)
(*  SpecWager  : the wager handlers of the seven game components (escrow,  *)
(*               outcome draw, payout request through processPayout).      *)
(*                                                                         *)
(* Amounts are carried in milli-SOL (0.001 SOL, the games' minBet) and     *)
(* converted to lamports the way the code converts them.                   *)
(***************************************************************************)
EXTENDS Integers, Sequences, FiniteSets, TLC

\* ------------------------------------------------------------------ bounds
MaxRequests == 3        \* payout requests the server receives in one run
MaxTopUps == 2          \* external deposits into the house wallet in one run
MaxRounds == 2          \* wagers a player places in one run
MaxSlot == 3            \* ledger slots that pass in one run
MaxNow == 2             \* milliseconds of Date.now() that pass in one run
MaxBets == 2            \* placeBet calls of one crash session

\* ------------------------------------------------------- program constants
LAMPORTS_PER_SOL == 1000000000
MILLI_PER_SOL == 1000
FEE_RESERVE == 5000
WIN_MULTIPLIER == 2         \* GAME_CONFIG.winMultiplier
MAX_HISTORY == 50
PAYOUTS_PAGE == 50           \* GET /api/payouts returns the last 50 records

GameIds == {"g1", "g2"}
\* playerWallet: "" is missing, "bad" is no base58 public key, "P1" is valid;
\* amount is in milli-SOL and 0 is the missing (falsy) amount

VARIABLES
    \* ---- payout server
    houseKeypair,     \* TRUE iff the house wallet key was loaded
    payoutHistory,    \* sequence of payout records
    pendingPayouts,   \* set of gameIds marked in flight (the Map's keys)
    req,              \* per request: position in the handler, body, response
    \* ---- ledger
    houseBalance,     \* lamports in the house wallet
    ledger,           \* per request: state of the transfer it submitted
    topUps,           \* deposits made so far
    \* ---- a player's game session (one wager at a time)
    game,             \* the game component the wager is placed in
    wpc,              \* position of the wager's handler
    gamePhase,        \* the component's gamePhase / gameState
    stake,            \* the wager's amount, milli-SOL
    escrow,           \* state on the ledger of the stake transfer
    confirmation,     \* what the confirmation wait of the stake transfer returned
    seedFetched,      \* the ledger seed (blockhash, slot) was obtained
    drawn,            \* the outcome draw was made
    outcome,          \* the drawn outcome
    gameResult,       \* the component's gameResult
    winAmount,        \* the component's winAmount
    stats,            \* the component's stats
    history,          \* the recorded history entries
    localSigner,      \* localStorage holds HOUSE_WALLET_SECRET_KEY
    payoutPc,         \* position of the processPayout call
    payoutAmount,     \* its request.amount, milli-SOL
    payoutAttempts,   \* processPayout calls made for the wager
    payoutTx,         \* state on the ledger of the transfer it submitted
    payoutSigned,     \* the house balance covered the transfer when it was signed: "none", "yes", "no"
    payoutRes,        \* the PayoutResponse it returned
    balls,            \* plinko: balls on the board
    round,            \* wagers placed so far
    \* ---- outcome draws of concurrent wagers of one player
    ledgerSlot,       \* the ledger's current slot; its latest blockhash is that slot's
    now,              \* Date.now()
    draws,            \* per wager: game, position, seed material, seed string, outcome
    \* ---- a round at one game component, by its amounts
    table,            \* game, phase, bet input, escrowed stake, isDoubled, result, payout
    \* ---- the slots jackpot
    slotsStored,      \* localStorage "slots_jackpot", 0 when the key is absent
    slotsTabs,        \* per tab: mounted, jackpot state, the running spin
    \* ---- a crash round
    crash,            \* gameState, crash point, auto-cashout, multiplier, cashout
    crashDraw,       \* generateCrashPoint: the last two draws and their crash points
    wheel,           \* RouletteGame: gamePhase, bets, result, winAmount
    dice,            \* DiceGame: gamePhase, target, rollOver, the rolled round
    rpc,             \* RPC endpoints that answer, the server's connection, the last balance read
    blackjack,       \* BlackjackGame: phase, deck, hands and result
    launch,          \* CrashGame with the bets in flight: shared state, refs, one run loop per bet
    plinko,          \* PlinkoGame: phase, risk level, balls on the board, the animation effect
    slotWin,         \* calculateWin: the last call, its arguments and its amount
    fair,            \* generateProvablyFairResult and verifyResult: the last result and its verification
    coin             \* CoinFlipGame: phase, selected side, shown side, history entries

serverOnlyVars == <<houseKeypair, payoutHistory, pendingPayouts, req, ledger, topUps>>
seedVars == <<ledgerSlot, now, draws>>
slotsVars == <<slotsStored, slotsTabs>>
extraVars == <<crash, crashDraw, wheel, dice, rpc, blackjack, launch, plinko, slotWin, fair, coin>>
auxVars == <<seedVars, table, slotsVars, extraVars>>
playVars == <<game, wpc, gamePhase, stake, escrow, confirmation, seedFetched, drawn, outcome,
                   gameResult, winAmount, stats, history, localSigner, payoutPc, payoutAmount,
                   payoutAttempts, payoutTx, payoutSigned, payoutRes, balls, round>>
wagerOnlyVars == <<auxVars, playVars>>
serverVars == <<houseKeypair, payoutHistory, pendingPayouts, req, houseBalance, ledger, topUps>>
wagerVars == <<wagerOnlyVars, houseBalance>>

NoPayoutRes == [success |-> FALSE, signature |-> 0, error |-> ""]
NoStats == [wins |-> 0, losses |-> 0, totalWagered |-> 0, totalWon |-> 0]

\* a session in which no wager has been placed
WagerIdle ==
    /\ wpc = "idle" /\ gamePhase = "betting" /\ stake = 0
    /\ escrow = "none" /\ confirmation = "none" /\ seedFetched = FALSE /\ drawn = FALSE
    /\ outcome = "none" /\ gameResult = "none" /\ winAmount = 0
    /\ stats = NoStats /\ history = <<>>
    /\ payoutPc = "none" /\ payoutAmount = 0 /\ payoutTx = "none" /\ payoutSigned = "none"
    /\ payoutAttempts = 0
    /\ payoutRes = NoPayoutRes /\ balls = 0 /\ round = 0

Wagers == {1, 2}
NoDraw == [game |-> "none", pc |-> "idle", blockhash |-> "", blockSlot |-> 0, slot |-> 0, seed |-> "",
           outcome |-> 0, recorded |-> [blockhash |-> "", slot |-> 0]]

\* no draw has begun
SeedIdle ==
    /\ ledgerSlot = 1 /\ now = 1
    /\ draws = [w \in Wagers |-> NoDraw]

\* no round has begun at the game component
NoTable == [game |-> "none", phase |-> "betting", bets |-> 0, betAmount |-> 0,
            escrowed |-> 0, drawn |-> FALSE, cards |-> 0, isDoubled |-> FALSE,
            result |-> "none", payout |-> 0, error |-> "", rounds |-> 0]

TableIdle == table = NoTable

NoTab == [mounted |-> FALSE, pc |-> "idle", jackpot |-> 0, closure |-> 0, stake |-> 0,
          reels |-> <<>>, winAmount |-> 0, spins |-> 0]

\* no slots component is mounted
SlotsIdle ==
    /\ slotsStored = 0
    /\ slotsTabs = [t \in {1, 2} |-> NoTab]

NoCrash == [gameState |-> "waiting", betPlaced |-> FALSE, amount |-> 0, point |-> 0,
            autoCashout |-> 0, multiplier |-> 100, elapsed |-> 100,
            cashedOut |-> FALSE, cashoutMultiplier |-> 0, requested |-> 0,
            winnings |-> 0, losses |-> 0, rounds |-> 0]

\* no crash point generated yet
NoCrashDraw == [prev |-> [value |-> -1, point |-> 0], last |-> [value |-> -1, point |-> 0],
                calls |-> 0]

\* RouletteGame before the first bet
NoWheel == [gamePhase |-> "betting", bets |-> <<>>, escrowed |-> 0, result |-> -1,
            winAmount |-> 0, payoutRequested |-> 0, error |-> "", rounds |-> 0]

\* DiceGame before the first roll
NoDice == [gamePhase |-> "betting", target |-> 50, rollOver |-> TRUE,
           round |-> [amount |-> 0, target |-> 0, rollOver |-> TRUE, winChance |-> 0,
                      result |-> 0, won |-> FALSE, payout |-> 0],
           rounds |-> 0]

\* every endpoint answers, the server is connected to RPC_URLS[0], nothing read
NoRpc == [up |-> [e \in 1..3 |-> TRUE], connection |-> 1,
          last |-> [op |-> "none", ok |-> FALSE, by |-> 0, tried |-> <<>>,
                    up |-> [e \in 1..3 |-> TRUE]],
          reads |-> 0]

\* the blackjack table before the first deal: useState([]) for deck and hands
NoBlackjack == [gamePhase |-> "betting", deck |-> <<>>, playerHand |-> <<>>,
                dealerHand |-> <<>>, gameResult |-> "none", doubled |-> FALSE,
                deals |-> 0]

\* a placeBet call that was not made yet
NoBet == [pc |-> "idle", amount |-> 0, point |-> 0, elapsed |-> 100,
          payoutRequests |-> 0, wins |-> 0]

\* CrashGame as mounted: waiting, no bet placed, refs false and ""
NoLaunch == [gameState |-> "waiting", betPlaced |-> FALSE, cashedOut |-> FALSE,
             cashedOutRef |-> FALSE, autoCashout |-> 0, multiplier |-> 100, shownBy |-> 0,
             losses |-> 0, bets |-> [b \in 1..MaxBets |-> NoBet]]

\* PlinkoGame as mounted: betting at medium risk, no ball, nothing landed
\* (recentLandedSlot null is -1), the animation effect returned at once
NoPlinko == [gamePhase |-> "betting", riskLevel |-> "medium", balls |-> <<>>,
             pc |-> "idle", amount |-> 0, hadBalls |-> FALSE, error |-> "",
             recentLandedSlot |-> -1, effectRisk |-> "none", drops |-> 0]

\* calculateWin not called yet
NoSlotWin == [symbols |-> <<"lemon", "lemon", "lemon">>, betAmt |-> 0, jackpot |-> 0,
              amount |-> 0, calls |-> 0]

\* no result generated yet
NoFair == [byte |-> 0, winChance |-> 0, result |-> "none", won |-> FALSE,
           verified |-> FALSE, verifiedOpposite |-> FALSE, calls |-> 0]

\* no side selected, nothing flipped, no entry recorded; shown[i] is the side
\* setResult displayed in the round that recorded history[i]
NoCoin == [gamePhase |-> "betting", selectedSide |-> "none", result |-> "none",
           gameResult |-> "none", error |-> "", history |-> <<>>, shown |-> <<>>,
           flips |-> 0]

\* the components outside the games above, before anything happened
ExtraIdle ==
    /\ crash = NoCrash
    /\ crashDraw = NoCrashDraw
    /\ wheel = NoWheel
    /\ dice = NoDice
    /\ rpc = NoRpc
    /\ blackjack = NoBlackjack
    /\ launch = NoLaunch
    /\ plinko = NoPlinko
    /\ slotWin = NoSlotWin
    /\ fair = NoFair
    /\ coin = NoCoin

\* a server that has received nothing
ServerIdle ==
    /\ payoutHistory = <<>>
    /\ pendingPayouts = {}
    /\ req = [r \in 1..MaxRequests |-> [pc |-> "new",
                 body |-> [playerWallet |-> "", amount |-> 0, gameId |-> ""],
                 res |-> [status |-> 0, success |-> FALSE, signature |-> 0, error |-> "", extra |-> ""]]]
    /\ ledger = [r \in 1..MaxRequests |-> "none"]
    /\ topUps = 0

Requests == 1..MaxRequests

\* Math.floor(amount * LAMPORTS_PER_SOL), amount given in milli-SOL
Lamports(amount) == amount * (LAMPORTS_PER_SOL \div MILLI_PER_SOL)

NoBody == [playerWallet |-> "", amount |-> 0, gameId |-> ""]
NoRes == [status |-> 0, success |-> FALSE, signature |-> 0, error |-> "", extra |-> ""]
\* the request bodies tried: every well-formed one, and one with each defect
Bodies ==
    [playerWallet : {"P1"}, amount : {1}, gameId : GameIds]
    \cup {[playerWallet |-> "", amount |-> 1, gameId |-> "g1"],
          [playerWallet |-> "P1", amount |-> 0, gameId |-> "g1"],
          [playerWallet |-> "P1", amount |-> 1, gameId |-> ""],
          [playerWallet |-> "bad", amount |-> 1, gameId |-> "g1"]}

Res(status, success, signature, error, extra) ==
    [status |-> status, success |-> success, signature |-> signature,
     error |-> error, extra |-> extra]

\* new PublicKey(playerWallet) does not throw
ValidPublicKey(w) == w \in {"P1", "P2"}

\* (mutant) the in-flight check is skipped
PendingHas_Never(g) == FALSE

\* pendingPayouts.has(gameId)
PendingHas(g) == g \in pendingPayouts

\* (mutant) the already-paid lookup finds nothing
ExistingPayout_Never(g) == <<>>

\* payoutHistory.find((p) => p.gameId === gameId): the records found
ExistingPayout(g) == SelectSeq(payoutHistory, LAMBDA p : p.gameId = g)

\* houseBalance < lamports + 5000
Insufficient(balance, lamports) == balance < lamports + FEE_RESERVE

\* (mutant) the insufficient-balance exit forgets pendingPayouts.delete
PendingAfterInsufficient_Kept(g) == pendingPayouts

\* (mutant) the catch block forgets pendingPayouts.delete
PendingAfterCatch_Kept(g) == pendingPayouts

\* pendingPayouts after the delete of each exit path
PendingAfterInsufficient(g) == pendingPayouts \ {g}
PendingAfterSuccess(g) == pendingPayouts \ {g}
PendingAfterCatch(g) == pendingPayouts \ {g}

InFlightPcs == {"getBalance", "getBlockhash", "send", "confirm"}
InFlight(g) == {r \in Requests : req[r].pc \in InFlightPcs /\ req[r].body.gameId = g}

Finish(r, res) ==
    req' = [req EXCEPT ![r].pc = "done", ![r].res = res]

\* the catch block: release the marker, answer 500 with the error's message
Catch(r, msg) ==
    /\ pendingPayouts' = PendingAfterCatch(req[r].body.gameId)
    /\ Finish(r, Res(500, FALSE, 0, msg, ""))

ServerInit ==
    /\ houseKeypair \in BOOLEAN
    /\ ServerIdle
    /\ houseBalance = 0
    /\ localSigner = FALSE
    /\ game = "coinflip"
    /\ WagerIdle
    /\ SeedIdle
    /\ TableIdle
    /\ SlotsIdle
    /\ ExtraIdle

\* The handler from its entry to its first await: validation, the duplicate
\* and already-paid checks, the marker, the address parse.
PostPayout(r, body) ==
    /\ req[r].pc = "new"
    /\ IF r = 1 THEN TRUE ELSE req[r - 1].pc # "new"
    /\ UNCHANGED <<wagerOnlyVars, houseKeypair, payoutHistory, houseBalance, ledger, topUps>>
    /\ LET g == body.gameId
           start == [req EXCEPT ![r].body = body]
           answer(res) == /\ req' = [start EXCEPT ![r].pc = "done", ![r].res = res]
                          /\ UNCHANGED pendingPayouts
       IN  IF body.playerWallet = "" \/ body.amount = 0 \/ g = ""
           THEN answer(Res(400, FALSE, 0, "Missing required fields", ""))
           ELSE IF ~houseKeypair
           THEN answer(Res(503, FALSE, 0, "House wallet not configured", ""))
           ELSE IF PendingHas(g)
           THEN answer(Res(409, FALSE, 0, "Payout for this game is already being processed", ""))
           ELSE IF Len(ExistingPayout(g)) > 0
           THEN answer(Res(200, TRUE, ExistingPayout(g)[1].signature, "", "message"))
           ELSE IF ~ValidPublicKey(body.playerWallet)
           THEN \* set, throw, catch, delete: all before the first await
                answer(Res(500, FALSE, 0, "Invalid public key input", ""))
           ELSE /\ pendingPayouts' = pendingPayouts \cup {g}
                /\ req' = [start EXCEPT ![r].pc = "getBalance"]

\* await connection.getBalance(...) returns, then the balance check
GetBalanceReturns(r) ==
    /\ req[r].pc = "getBalance"
    /\ UNCHANGED <<wagerOnlyVars, houseKeypair, payoutHistory, houseBalance, ledger, topUps>>
    /\ IF Insufficient(houseBalance, Lamports(req[r].body.amount))
       THEN /\ pendingPayouts' = PendingAfterInsufficient(req[r].body.gameId)
            /\ Finish(r, Res(503, FALSE, 0, "Insufficient house wallet balance", ""))
       ELSE /\ req' = [req EXCEPT ![r].pc = "getBlockhash"]
            /\ UNCHANGED pendingPayouts

\* await connection.getLatestBlockhash(...) returns; the transaction is signed
GetBlockhashReturns(r) ==
    /\ req[r].pc = "getBlockhash"
    /\ req' = [req EXCEPT ![r].pc = "send"]
    /\ UNCHANGED <<wagerOnlyVars, houseKeypair, payoutHistory, pendingPayouts, houseBalance, ledger, topUps>>

\* await connection.sendRawTransaction(...) returns the signature
SendReturns(r) ==
    /\ req[r].pc = "send"
    /\ ledger' = [ledger EXCEPT ![r] = "submitted"]
    /\ req' = [req EXCEPT ![r].pc = "confirm"]
    /\ UNCHANGED <<wagerOnlyVars, houseKeypair, payoutHistory, pendingPayouts, houseBalance, topUps>>

\* one of the awaited RPC calls rejects (network error, timeout, expiry)
RpcThrows(r) ==
    /\ req[r].pc \in InFlightPcs
    /\ Catch(r, "rpc error")
    /\ UNCHANGED <<wagerOnlyVars, houseKeypair, payoutHistory, houseBalance, ledger, topUps>>

\* await connection.confirmTransaction(...) returns
ConfirmReturns(r) ==
    /\ req[r].pc = "confirm"
    /\ ledger[r] \in {"executed", "failed"}
    /\ UNCHANGED <<wagerOnlyVars, houseKeypair, houseBalance, ledger, topUps>>
    /\ IF ledger[r] = "failed"
       THEN /\ Catch(r, "Transaction failed to confirm")
            /\ UNCHANGED payoutHistory
       ELSE /\ payoutHistory' = Append(payoutHistory,
                  [gameId |-> req[r].body.gameId, playerWallet |-> req[r].body.playerWallet,
                   amount |-> req[r].body.amount, signature |-> r])
            /\ pendingPayouts' = PendingAfterSuccess(req[r].body.gameId)
            /\ Finish(r, Res(200, TRUE, r, "", "explorerUrl"))

\* The ledger processes a submitted transfer: it executes when the house
\* wallet holds the lamports and the fee, and fails otherwise.
LedgerProcess(r) ==
    /\ ledger[r] = "submitted"
    /\ LET l == Lamports(req[r].body.amount)
       IN  IF houseBalance >= l + FEE_RESERVE
           THEN /\ ledger' = [ledger EXCEPT ![r] = "executed"]
                /\ houseBalance' = houseBalance - l - FEE_RESERVE
           ELSE /\ ledger' = [ledger EXCEPT ![r] = "failed"]
                /\ UNCHANGED houseBalance
    /\ UNCHANGED <<wagerOnlyVars, houseKeypair, payoutHistory, pendingPayouts, req, topUps>>

\* somebody funds the house wallet
TopUp ==
    /\ topUps < MaxTopUps
    /\ topUps' = topUps + 1
    /\ houseBalance' = houseBalance + Lamports(1) + FEE_RESERVE
    /\ UNCHANGED <<wagerOnlyVars, houseKeypair, payoutHistory, pendingPayouts, req, ledger>>

\* GET /api/payouts: payoutHistory.slice(-50)
GetPayouts ==
    LET n == Len(payoutHistory)
    IN  SubSeq(payoutHistory, IF n > PAYOUTS_PAGE THEN n - PAYOUTS_PAGE + 1 ELSE 1, n)

ServerNext ==
    \/ \E r \in Requests, body \in Bodies : PostPayout(r, body)
    \/ \E r \in Requests : GetBalanceReturns(r)
    \/ \E r \in Requests : GetBlockhashReturns(r)
    \/ \E r \in Requests : SendReturns(r)
    \/ \E r \in Requests : RpcThrows(r)
    \/ \E r \in Requests : ConfirmReturns(r)
    \/ \E r \in Requests : LedgerProcess(r)
    \/ TopUp

vars == <<serverOnlyVars, wagerOnlyVars, houseBalance>>

\* everything a crash round leaves alone
notCrashVars == <<serverVars, playVars, seedVars, table, slotsVars, crashDraw, wheel, dice, rpc, blackjack, launch, plinko, slotWin, fair, coin>>

SpecServer == ServerInit /\ [][ServerNext]_vars

\* ======================================================== claims on SpecServer

\* the PayoutResponse a caller reads from a response body: {success, signature?, error?}
PayoutResponse(res) == [success |-> res.success, signature |-> res.signature, error |-> res.error]

RecordsOf(g) == {i \in 1..Len(payoutHistory) : payoutHistory[i].gameId = g}
Recorded(g) == RecordsOf(g) # {}
SendCalls(g) == {r \in Requests : req[r].body.gameId = g /\ ledger[r] # "none"}
Executed(g) == {r \in Requests : req[r].body.gameId = g /\ ledger[r] = "executed"}
HasRequiredFields(body) == body.playerWallet # "" /\ body.amount # 0 /\ body.gameId # ""
\* request r enters the handler in this step
Begins(r) == req[r].pc = "new" /\ req'[r].pc # "new"
IsInsufficient(r) == req[r].pc = "done" /\ req[r].res.error = "Insufficient house wallet balance"
IsFreshSuccess(r) == req[r].pc = "done" /\ req[r].res.status = 200 /\ req[r].res.extra = "explorerUrl"
IsReplay(r) == req[r].pc = "done" /\ req[r].res.status = 200 /\ req[r].res.extra = "message"

\* C1 (as claimed): for every gameId at most one transfer is ever executed on
\* the ledger, whatever sequence of requests and failed attempts preceded it.
C1_AtMostOneExecutedTransfer ==
    \A g \in GameIds : Cardinality(Executed(g)) <= 1

\* C2: once a payout for a gameId is recorded, (a) no two records share the
\* gameId, (b) every answer with status 200 for it carries success and the
\* recorded signature, (c) a later request with the required fields is answered
\* at once from the record and (d) no further transfer is sent for it.
C2_StateOk ==
    /\ \A g \in GameIds : Cardinality(RecordsOf(g)) <= 1
    /\ \A r \in Requests :
          (req[r].pc = "done" /\ req[r].res.status = 200) =>
              /\ Recorded(req[r].body.gameId)
              /\ \A i \in RecordsOf(req[r].body.gameId) :
                    PayoutResponse(req[r].res) =
                        [success |-> TRUE, signature |-> payoutHistory[i].signature, error |-> ""]
C2_StepOk ==
    \A g \in GameIds :
        Recorded(g) =>
            /\ SendCalls(g)' = SendCalls(g)
            /\ \A r \in Requests :
                  (Begins(r) /\ req'[r].body.gameId = g /\ HasRequiredFields(req'[r].body)) =>
                      /\ req'[r].pc = "done"
                      /\ req'[r].res.status = 200
                      /\ ledger'[r] = "none"
C2_PaidGameIsReplayed == [](C2_StateOk) /\ [][C2_StepOk]_serverVars

\* C2 witness: a gameId was paid by one request and a later request for it
\* was answered from the record.
C2_Witness ==
    \E r1, r2 \in Requests :
        /\ r1 # r2 /\ req[r1].body.gameId = req[r2].body.gameId
        /\ IsFreshSuccess(r1) /\ IsReplay(r2)
        /\ Cardinality(SendCalls(req[r1].body.gameId)) = 1

\* C7: at most one request per gameId is between setting and clearing the
\* marker; a request arriving meanwhile for that gameId is turned away with no
\* transfer; a request for a gameId that is neither in flight nor paid is
\* admitted whatever else is in flight.
C7_StateOk ==
    /\ \A g \in GameIds : Cardinality(InFlight(g)) <= 1
    /\ \A r \in Requests : req[r].res.status = 409 => ledger[r] = "none"
C7_StepOk ==
    \A r \in Requests :
        (Begins(r) /\ HasRequiredFields(req'[r].body)) =>
            LET g == req'[r].body.gameId
            IN  /\ InFlight(g) # {} => (req'[r].pc = "done" /\ ledger'[r] = "none")
                /\ (InFlight(g) = {} /\ ~Recorded(g) /\ houseKeypair
                      /\ req'[r].body.playerWallet = "P1") => req'[r].pc = "getBalance"
C7_SingleWriterPerGame == [](C7_StateOk) /\ [][C7_StepOk]_serverVars

\* C7 witness: two different gameIds are in flight together and a request
\* for one of them was refused meanwhile.
C7_Witness ==
    /\ InFlight("g1") # {} /\ InFlight("g2") # {}
    /\ \E r \in Requests : req[r].res.status = 409

\* C8 (as claimed): a request that arrives for a gameId already paid or still
\* in flight is answered as a success, never as an error.
C8_StepOk ==
    \A r \in Requests :
        (Begins(r) /\ HasRequiredFields(req'[r].body)
            /\ (InFlight(req'[r].body.gameId) # {} \/ Recorded(req'[r].body.gameId))) =>
                (req'[r].pc = "done" /\ req'[r].res.success /\ req'[r].res.status < 400)
C8_DuplicateIsNoError == [][C8_StepOk]_serverVars

\* C10: the insufficient-balance exit leaves neither a marker nor a record,
\* so the next request for the gameId is admitted; and when a request that
\* follows only attempts that sent nothing (one of them refused for
\* insufficient balance) is confirmed, exactly one transfer was sent and
\* executed for the gameId and exactly one record holds it.
C10_StateOk ==
    \A r \in Requests :
        (IsFreshSuccess(r)
            /\ (\E r0 \in 1..(r - 1) : IsInsufficient(r0) /\ req[r0].body.gameId = req[r].body.gameId)
            /\ (\A r0 \in 1..(r - 1) : req[r0].body.gameId = req[r].body.gameId => ledger[r0] = "none")) =>
                /\ SendCalls(req[r].body.gameId) = {r}
                /\ Executed(req[r].body.gameId) = {r}
                /\ Cardinality(RecordsOf(req[r].body.gameId)) = 1
C10_StepOk ==
    \A r \in Requests :
        /\ (~IsInsufficient(r) /\ IsInsufficient(r)') =>
              (req[r].body.gameId \notin pendingPayouts' /\ ~Recorded(req[r].body.gameId)')
        /\ (Begins(r) /\ HasRequiredFields(req'[r].body) /\ req'[r].body.playerWallet = "P1"
              /\ (\E r0 \in Requests : IsInsufficient(r0) /\ req[r0].body.gameId = req'[r].body.gameId)
              /\ InFlight(req'[r].body.gameId) = {} /\ ~Recorded(req'[r].body.gameId)) =>
                  req'[r].pc = "getBalance"
C10_RetryAfterTopUp == [](C10_StateOk) /\ [][C10_StepOk]_serverVars

\* C10 witness: a request was refused for insufficient balance and, after a
\* deposit, a later request for the same gameId was confirmed.
C10_Witness ==
    \E r0, r \in Requests :
        /\ r0 < r /\ req[r0].body.gameId = req[r].body.gameId
        /\ IsInsufficient(r0) /\ IsFreshSuccess(r) /\ topUps > 0
        /\ \A q \in 1..(r - 1) : req[q].body.gameId = req[r].body.gameId => ledger[q] = "none"

\* ------------------------------------------------------------ process restart
\* The server process stops and is started again: payoutHistory and
\* pendingPayouts are created anew, the handlers that were waiting are gone
\* and their clients get no answer; the ledger keeps what was submitted.
Restart ==
    /\ payoutHistory' = <<>>
    /\ pendingPayouts' = {}
    /\ req' = [r \in Requests |->
                 IF req[r].pc \in InFlightPcs THEN [req[r] EXCEPT !.pc = "done"] ELSE req[r]]
    /\ UNCHANGED <<wagerOnlyVars, houseKeypair, houseBalance, ledger, topUps>>

RestartNext ==
    \/ ServerNext
    \/ Restart

SpecRestart == ServerInit /\ [][RestartNext]_vars

\* C13: the payout records survive a restart of the server: a request for a
\* gameId whose payout was recorded and answered earlier, before a restart
\* or not, submits no new transfer.
C13_PaidGameSurvivesRestart ==
    \A r1, r2 \in Requests :
        (r1 < r2 /\ IsFreshSuccess(r1) /\ req[r2].body.gameId = req[r1].body.gameId)
            => ledger[r2] = "none"

\* request r was accepted and its payout failed: insufficient balance, an RPC
\* failure, or a transfer that failed on the ledger
IsFailedPayout(r) ==
    /\ req[r].pc = "done"
    /\ req[r].res.error \in {"Insufficient house wallet balance", "rpc error",
                              "Transaction failed to confirm"}

\* C12: every failed payout is recorded so that the query for operator
\* review, GET /api/payouts, returns an entry for its gameId.
C12_FailedPayoutIsQueryable ==
    \A r \in Requests :
        IsFailedPayout(r) =>
            \E i \in 1..Len(GetPayouts) : GetPayouts[i].gameId = req[r].body.gameId

\* ================================================================ the games
\* gamePhase is one vocabulary for the seven components: "betting" (crash:
\* gameState "waiting"), "sending", "playing" (flipping, rolling, spinning,
\* dropping, dealing, crash: "running"), "payout", "result" and crash's
\* "crashed".  A session stays in one game component.

Games == {"coinflip", "dice", "crash", "slots", "roulette", "plinko", "blackjack"}
Stakes == {2}
HouseFunds == {0, Lamports(20)}

\* the handler throws when confirmation.value.err is set
ChecksConfirmationErr(g) == g \in {"coinflip", "dice"}

\* (mutant) no handler looks at confirmation.value.err
ChecksConfirmationErr_Never(g) == FALSE

\* the outcome is drawn from a ledger seed fetched after the escrow
UsesLedgerSeed(g) == g \in {"coinflip", "dice", "crash"}

\* a failed seed fetch propagates to the handler's catch
SeedFailureThrows(g) == g \in {"coinflip", "dice"}

\* the handler sets gamePhase "sending" on entry
SetsSending(g) == g \notin {"crash", "blackjack"}

\* the draw made right after the escrow already fixes the outcome
DrawFixesOutcome(g) == g \in {"slots", "roulette"}

\* the handler awaits processPayout before it goes on
AwaitsPayout(g) == g \in {"coinflip", "dice", "roulette", "blackjack"}

\* stats and history are written after processPayout has returned
RecordsAfterPayout(g) == g \in {"coinflip", "dice"}

HasGameResult(g) == g \in {"coinflip", "dice", "blackjack"}
HasWinAmount(g) == g \in {"slots", "roulette"}
HasHistory(g) == g \in {"coinflip", "dice"}

\* what a wager of the game can resolve to
Outcomes(g) == IF g = "blackjack" THEN {"win", "lose", "push", "blackjack"} ELSE {"win", "lose"}

\* multipliers of the payout tables other than coin flip's and blackjack's
TableMultipliers == {2, 3}

\* the returns with coin flip paying the stake back once
Payouts_CoinFlipSingle(g, amount, o) ==
    IF o = "lose" THEN {0}
    ELSE IF g = "coinflip" THEN {amount}
    ELSE IF g = "blackjack"
    THEN {IF o = "blackjack" THEN (amount * 5) \div 2 ELSE IF o = "win" THEN amount * 2 ELSE amount}
    ELSE {amount * m : m \in TableMultipliers}

\* the total return of a resolved wager, milli-SOL
Payouts(g, amount, o) ==
    IF o = "lose" THEN {0}
    ELSE IF g = "coinflip" THEN {amount * WIN_MULTIPLIER}
    ELSE IF g = "blackjack"
    THEN {IF o = "blackjack" THEN (amount * 5) \div 2 ELSE IF o = "win" THEN amount * 2 ELSE amount}
    ELSE {amount * m : m \in TableMultipliers}

\* setStats of a resolved wager
StatsAfter(st, amount, payout, o) ==
    IF o = "lose"
    THEN [st EXCEPT !.losses = @ + 1, !.totalWagered = @ + amount]
    ELSE IF o = "push"
    THEN [st EXCEPT !.totalWagered = @ + amount, !.totalWon = @ + payout]
    ELSE [st EXCEPT !.wins = @ + 1, !.totalWagered = @ + amount, !.totalWon = @ + payout]

\* addEntry: [newEntry, ...prev].slice(0, MAX_HISTORY)
AddEntry(h, e) ==
    LET all == <<e>> \o h
    IN  SubSeq(all, 1, IF Len(all) < MAX_HISTORY THEN Len(all) ELSE MAX_HISTORY)

HistoryAfter(g, h, amount, payout, o) ==
    IF HasHistory(g)
    THEN AddEntry(h, [betAmount |-> amount, won |-> (o = "win"), payout |-> payout])
    ELSE h

\* gamePhase set by the handler's catch
PhaseAfterCatch(g, phase, b) ==
    IF g = "crash" THEN phase
    ELSE IF g = "plinko" /\ b > 0 THEN phase
    ELSE "betting"

\* gamePhase when the wager is resolved; paying: a payout is requested
PhaseAtResolve(g, phase, paying) ==
    IF ~paying THEN "result"
    ELSE IF RecordsAfterPayout(g) THEN "payout"
    ELSE IF g = "blackjack" THEN phase
    ELSE "result"

\* (mutant) a failed payout sends the game back to betting
PhaseAfterPayout_FailureToBetting(g, phase, res) ==
    IF g = "roulette" THEN phase ELSE IF res.success THEN "result" ELSE "betting"

\* gamePhase once the awaited processPayout has returned res
PhaseAfterPayout(g, phase, res) == IF g = "roulette" THEN phase ELSE "result"

\* gameResult once the awaited processPayout has returned res
ResultAfterPayout(result, res) == result

\* the outcome written to stats and history once processPayout has returned res
RecordedOutcome(o, res) == o

WagerInit ==
    /\ game \in Games
    /\ WagerIdle
    /\ localSigner \in BOOLEAN
    /\ houseBalance \in HouseFunds
    /\ houseKeypair = TRUE
    /\ ServerIdle
    /\ SeedIdle
    /\ TableIdle
    /\ SlotsIdle
    /\ ExtraIdle

payoutVars == <<payoutPc, payoutAmount, payoutAttempts, payoutTx, payoutSigned, payoutRes>>
uiVars == <<gameResult, winAmount, stats, history>>
drawVars == <<seedFetched, drawn, outcome>>
sessionVars == <<serverOnlyVars, auxVars, game, localSigner>>

\* processPayout is called with request.amount = amount: up to its first await
StartPayout(amount) ==
    /\ payoutPc' = IF localSigner THEN "blockhash" ELSE "fetch"
    /\ payoutAmount' = amount
    /\ payoutAttempts' = payoutAttempts + 1
    /\ payoutTx' = "none"
    /\ payoutSigned' = "none"
    /\ payoutRes' = NoPayoutRes

\* flipCoin / rollDice / placeBet / spin / dropBall / deal: entry up to the
\* first await.  One stake transfer and one payout are followed at a time.
Bet(amount) ==
    /\ wpc = "idle" /\ round < MaxRounds
    /\ escrow # "submitted" /\ payoutPc \in {"none", "returned"}
    /\ stake' = amount /\ round' = round + 1
    /\ wpc' = "blockhash"
    /\ gamePhase' = IF SetsSending(game) THEN "sending" ELSE gamePhase
    /\ gameResult' = IF RecordsAfterPayout(game) THEN "none" ELSE gameResult
    /\ winAmount' = IF game \in {"slots", "plinko"} THEN 0 ELSE winAmount
    /\ escrow' = "none" /\ confirmation' = "none"
    /\ seedFetched' = FALSE /\ drawn' = FALSE /\ outcome' = "none"
    /\ payoutPc' = "none" /\ payoutAmount' = 0 /\ payoutAttempts' = 0 /\ payoutTx' = "none"
    /\ payoutSigned' = "none" /\ payoutRes' = NoPayoutRes
    /\ UNCHANGED <<sessionVars, houseBalance, stats, history, balls>>

\* await connection.getLatestBlockhash(COMMITMENT) returns
BetBlockhashReturns ==
    /\ wpc = "blockhash"
    /\ wpc' = "send"
    /\ UNCHANGED <<sessionVars, houseBalance, gamePhase, stake, escrow, confirmation,
                   drawVars, uiVars, payoutVars, balls, round>>

\* await sendTransaction(betTransaction, connection) returns the signature
BetSendReturns ==
    /\ wpc = "send"
    /\ escrow' = "submitted"
    /\ wpc' = "confirm"
    /\ UNCHANGED <<sessionVars, houseBalance, gamePhase, stake, confirmation,
                   drawVars, uiVars, payoutVars, balls, round>>

\* The ledger processes the stake transfer: it executes, or it fails (the
\* player's own funds are not followed).
LedgerStake(ok) ==
    /\ escrow = "submitted"
    /\ escrow' = IF ok THEN "executed" ELSE "failed"
    /\ houseBalance' = IF ok THEN houseBalance + Lamports(stake) ELSE houseBalance
    /\ UNCHANGED <<sessionVars, wpc, gamePhase, stake, confirmation,
                   drawVars, uiVars, payoutVars, balls, round>>

\* the handler's catch block
BetCatch ==
    /\ wpc' = "idle"
    /\ gamePhase' = PhaseAfterCatch(game, gamePhase, balls)

\* one of the awaits of the escrow rejects: the wallet refused, an RPC call
\* failed, the confirmation wait timed out
BetThrows ==
    /\ wpc \in {"blockhash", "send", "confirm"}
    /\ BetCatch
    /\ UNCHANGED <<sessionVars, houseBalance, stake, escrow, confirmation,
                   drawVars, uiVars, payoutVars, balls, round>>

\* where the handler goes when the confirmation wait has returned c
AfterConfirm(g, c) ==
    IF ChecksConfirmationErr(g) /\ c = "err" THEN "catch"
    ELSE IF UsesLedgerSeed(g) THEN "seed"
    ELSE "draw"

\* (mutant) the handler does not wait for the ledger to process the transfer
ConfirmWaitOver_AtOnce == TRUE

\* the confirmation wait returns once the ledger has processed the transfer
ConfirmWaitOver == escrow \in {"executed", "failed"}

\* await connection.confirmTransaction(...) returns, and the handler runs to
\* its next await: into the catch, to the seed fetch, or through the
\* Math.random draw to the animation
BetConfirmReturns(o) ==
    /\ wpc = "confirm"
    /\ ConfirmWaitOver
    /\ o \in Outcomes(game)
    /\ LET c == IF escrow = "executed" THEN "ok" ELSE "err"
           to == AfterConfirm(game, c)
       IN  /\ confirmation' = c
           /\ IF to = "catch"
              THEN BetCatch /\ UNCHANGED <<drawVars, balls>>
              ELSE IF to = "seed"
              THEN /\ wpc' = "seed"
                   /\ gamePhase' = IF game = "crash" THEN gamePhase ELSE "playing"
                   /\ UNCHANGED <<drawVars, balls>>
              ELSE /\ wpc' = IF game = "plinko" THEN "idle" ELSE "animate"
                   /\ gamePhase' = "playing"
                   /\ drawn' = TRUE
                   /\ outcome' = IF DrawFixesOutcome(game) THEN o ELSE "none"
                   /\ balls' = IF game = "plinko" THEN balls + 1 ELSE balls
                   /\ UNCHANGED seedFetched
    /\ UNCHANGED <<sessionVars, houseBalance, stake, escrow, uiVars, payoutVars, round>>

\* generateProvablyFairResult / generateCrashPoint: the blockhash (and slot)
\* arrive and the outcome is derived from their digest
SeedReturns(o) ==
    /\ wpc = "seed"
    /\ o \in Outcomes(game)
    /\ seedFetched' = TRUE /\ drawn' = TRUE
    /\ IF game = "crash"
       THEN outcome' = "none" /\ wpc' = "running" /\ gamePhase' = "playing"
       ELSE outcome' = o /\ wpc' = "animate" /\ UNCHANGED gamePhase
    /\ UNCHANGED <<sessionVars, houseBalance, stake, escrow, confirmation,
                   uiVars, payoutVars, balls, round>>

\* the blockhash or slot fetch rejects: coin flip and dice fall into the
\* handler's catch, crash falls back to Math.random
SeedThrows ==
    /\ wpc = "seed"
    /\ IF SeedFailureThrows(game)
       THEN BetCatch /\ UNCHANGED drawVars
       ELSE /\ drawn' = TRUE /\ UNCHANGED <<seedFetched, outcome>>
            /\ wpc' = "running" /\ gamePhase' = "playing"
    /\ UNCHANGED <<sessionVars, houseBalance, stake, escrow, confirmation,
                   uiVars, payoutVars, balls, round>>

\* The animation is over and the wager is resolved: coin flip and dice set
\* gameResult and, on a win, call processPayout before they write stats and
\* history; slots (in its timer), roulette and blackjack (handlePayout) write
\* stats first and then call processPayout.
Resolve(o, payout) ==
    /\ wpc = "animate"
    /\ o \in Outcomes(game)
    /\ IF DrawFixesOutcome(game) \/ UsesLedgerSeed(game) THEN o = outcome ELSE TRUE
    /\ payout \in Payouts(game, stake, o)
    /\ outcome' = o
    /\ gameResult' = IF HasGameResult(game) THEN o ELSE gameResult
    /\ winAmount' = IF HasWinAmount(game) /\ (payout > 0 \/ game = "roulette")
                    THEN payout ELSE winAmount
    /\ gamePhase' = PhaseAtResolve(game, gamePhase, payout > 0)
    /\ IF payout > 0 /\ RecordsAfterPayout(game)
       THEN UNCHANGED <<stats, history>>
       ELSE /\ stats' = StatsAfter(stats, stake, payout, o)
            /\ history' = HistoryAfter(game, history, stake, payout, o)
    /\ IF payout > 0
       THEN StartPayout(payout) /\ wpc' = IF AwaitsPayout(game) THEN "payout" ELSE "idle"
       ELSE UNCHANGED payoutVars /\ wpc' = "idle"
    /\ UNCHANGED <<sessionVars, houseBalance, stake, escrow, confirmation,
                   seedFetched, drawn, balls, round>>

\* the awaited processPayout has returned and the handler runs to its end
PayoutReturned ==
    /\ wpc = "payout"
    /\ payoutPc = "returned"
    /\ gamePhase' = PhaseAfterPayout(game, gamePhase, payoutRes)
    /\ gameResult' = IF HasGameResult(game) THEN ResultAfterPayout(gameResult, payoutRes)
                     ELSE gameResult
    /\ IF RecordsAfterPayout(game)
       THEN LET o == RecordedOutcome(outcome, payoutRes)
                paid == IF o = "win" THEN payoutAmount ELSE 0
            IN  /\ stats' = StatsAfter(stats, stake, paid, o)
                /\ history' = HistoryAfter(game, history, stake, paid, o)
       ELSE UNCHANGED <<stats, history>>
    /\ wpc' = "idle"
    /\ UNCHANGED <<sessionVars, houseBalance, stake, escrow, confirmation,
                   drawVars, winAmount, payoutVars, balls, round>>

\* crash, handleCashoutLogic: the player (or the auto cash-out) cashes out
\* while the multiplier runs
CrashCashout(payout) ==
    /\ wpc = "running"
    /\ outcome = "none"
    /\ payout \in Payouts(game, stake, "win")
    /\ outcome' = "win"
    /\ stats' = StatsAfter(stats, stake, payout, "win")
    /\ StartPayout(payout)
    /\ UNCHANGED <<sessionVars, houseBalance, wpc, gamePhase, stake, escrow, confirmation,
                   seedFetched, drawn, gameResult, winAmount, history, balls, round>>

\* crash, tick: the multiplier reaches the crash point
CrashCrashes ==
    /\ wpc = "running"
    /\ wpc' = "crashed"
    /\ gamePhase' = "crashed"
    /\ IF outcome = "none"
       THEN outcome' = "lose" /\ stats' = StatsAfter(stats, stake, 0, "lose")
       ELSE UNCHANGED <<outcome, stats>>
    /\ UNCHANGED <<sessionVars, houseBalance, stake, escrow, confirmation, seedFetched, drawn,
                   gameResult, winAmount, history, payoutVars, balls, round>>

\* crash, the 3 s timer after the crash: back to "waiting"
CrashReset ==
    /\ wpc = "crashed"
    /\ wpc' = "idle"
    /\ gamePhase' = "betting"
    /\ UNCHANGED <<sessionVars, houseBalance, stake, escrow, confirmation,
                   drawVars, uiVars, payoutVars, balls, round>>

\* ------------------------------------------------------------ processPayout
gameVars == <<wpc, gamePhase, stake, escrow, confirmation, drawVars, uiVars, balls, round>>

\* local branch: getLatestBlockhash returns, the transfer is built and signed
\* with the house key, sendRawTransaction is called
PayoutBlockhashReturns ==
    /\ payoutPc = "blockhash"
    /\ payoutSigned' = IF Insufficient(houseBalance, Lamports(payoutAmount)) THEN "no" ELSE "yes"
    /\ payoutPc' = "send"
    /\ UNCHANGED <<sessionVars, gameVars, houseBalance, payoutAmount, payoutAttempts, payoutTx, payoutRes>>

\* local branch: sendRawTransaction returns the signature
PayoutSendReturns ==
    /\ payoutPc = "send"
    /\ payoutTx' = "submitted"
    /\ payoutPc' = "confirm"
    /\ UNCHANGED <<sessionVars, gameVars, houseBalance, payoutAmount, payoutAttempts, payoutSigned, payoutRes>>

\* the ledger processes the payout transfer
LedgerPayout ==
    /\ payoutTx = "submitted"
    /\ LET l == Lamports(payoutAmount)
       IN  IF houseBalance >= l + FEE_RESERVE
           THEN payoutTx' = "executed" /\ houseBalance' = houseBalance - l - FEE_RESERVE
           ELSE payoutTx' = "failed" /\ UNCHANGED houseBalance
    /\ UNCHANGED <<sessionVars, gameVars, payoutPc, payoutAmount, payoutAttempts, payoutSigned, payoutRes>>

\* local branch: confirmTransaction returns; its value is not looked at
PayoutConfirmReturns ==
    /\ payoutPc = "confirm"
    /\ payoutTx \in {"executed", "failed"}
    /\ payoutRes' = [success |-> TRUE, signature |-> round, error |-> ""]
    /\ payoutPc' = "returned"
    /\ UNCHANGED <<sessionVars, gameVars, houseBalance, payoutAmount, payoutAttempts, payoutTx, payoutSigned>>

\* an await of processPayout rejects (RPC failure, fetch failure): its catch
\* returns success false
PayoutThrows ==
    /\ payoutPc \in {"blockhash", "send", "confirm", "fetch"}
    /\ payoutRes' = [success |-> FALSE, signature |-> 0, error |-> "Failed to process payout"]
    /\ payoutPc' = "returned"
    /\ UNCHANGED <<sessionVars, gameVars, houseBalance, payoutAmount, payoutAttempts, payoutTx, payoutSigned>>

\* API branch: the payout server answers the POST.  With a sufficient house
\* balance it pays and answers 200; otherwise it answers 503 and
\* processPayout throws on !response.ok.
PayoutFetchReturns ==
    /\ payoutPc = "fetch"
    /\ LET l == Lamports(payoutAmount)
       IN  IF Insufficient(houseBalance, l)
           THEN /\ payoutRes' = [success |-> FALSE, signature |-> 0,
                                 error |-> "Payout API returned 503"]
                /\ UNCHANGED <<houseBalance, payoutTx>>
           ELSE /\ payoutRes' = [success |-> TRUE, signature |-> round, error |-> ""]
                /\ payoutTx' = "executed"
                /\ houseBalance' = houseBalance - l - FEE_RESERVE
    /\ payoutPc' = "returned"
    /\ UNCHANGED <<sessionVars, gameVars, payoutAmount, payoutAttempts, payoutSigned>>

WagerNext ==
    \/ \E amount \in Stakes : Bet(amount)
    \/ BetBlockhashReturns
    \/ BetSendReturns
    \/ \E ok \in BOOLEAN : LedgerStake(ok)
    \/ BetThrows
    \/ \E o \in {"win", "lose", "push", "blackjack"} : BetConfirmReturns(o)
    \/ \E o \in {"win", "lose"} : SeedReturns(o)
    \/ SeedThrows
    \/ \E o \in {"win", "lose", "push", "blackjack"}, payout \in 0..10 : Resolve(o, payout)
    \/ PayoutReturned
    \/ \E payout \in 0..10 : CrashCashout(payout)
    \/ CrashCrashes
    \/ CrashReset
    \/ PayoutBlockhashReturns
    \/ PayoutSendReturns
    \/ LedgerPayout
    \/ PayoutConfirmReturns
    \/ PayoutThrows
    \/ PayoutFetchReturns

SpecWager == WagerInit /\ [][WagerNext]_vars

\* ========================================================= claims, SpecWager

\* the wager's stake transfer was submitted and its confirmation wait returned
EscrowSettled == escrow \in {"executed", "failed"} /\ confirmation \in {"ok", "err"}

\* C3: in every game the seed fetch and the outcome draw of a wager happen
\* only after the wager's stake transfer was submitted and the confirmation
\* wait returned; nothing is fetched or drawn while the escrow is pending.
C3_DrawOnlyAfterEscrow ==
    (wpc = "seed" \/ seedFetched \/ drawn \/ outcome # "none") => EscrowSettled

C3_Witness ==
    /\ game = "crash" /\ seedFetched /\ drawn
    /\ escrow = "executed" /\ confirmation = "ok"

\* C4: in every game a stake transfer whose confirmation reports an error
\* aborts the wager: the game is in the betting phase, no outcome is drawn
\* and no payout is requested.
C4_FailedStakeAbortsWager ==
    confirmation = "err" =>
        /\ gamePhase = "betting"
        /\ ~drawn /\ outcome = "none"
        /\ payoutPc = "none"

\* C5: a wager whose escrow is confirmed is never cancelled silently: the
\* game is never back in the betting phase, its handler over, with the stake
\* in house custody and no outcome recorded.
C5_ConfirmedWagerNotCancelled ==
    ~ (/\ escrow = "executed" /\ confirmation = "ok"
       /\ wpc = "idle" /\ gamePhase = "betting"
       /\ outcome = "none" /\ gameResult = "none")

\* the wager was resolved as a win and processPayout reported a failure
UnpaidWin == outcome = "win" /\ payoutPc = "returned" /\ ~payoutRes.success

C6_StateOk ==
    UnpaidWin =>
        /\ HasGameResult(game) => gameResult = "win"
        /\ game = "coinflip" => payoutAmount = stake * WIN_MULTIPLIER
        /\ (wpc = "idle" /\ game # "crash") => gamePhase = "result"
        /\ (wpc = "idle" /\ HasHistory(game)) =>
              /\ history # <<>>
              /\ history[1] = [betAmount |-> stake, won |-> TRUE, payout |-> payoutAmount]
              /\ stats.wins > 0

C6_StepOk ==
    (UnpaidWin /\ RecordsAfterPayout(game) /\ wpc = "payout" /\ wpc' = "idle") =>
        stats' = [stats EXCEPT !.wins = @ + 1,
                               !.totalWagered = @ + stake,
                               !.totalWon = @ + payoutAmount]

\* C6: after a wager was resolved as a win, a failed payout never changes
\* the recorded outcome: gameResult stays "win", stats and the history entry
\* record a win with the full payout, and the game ends in the "result"
\* phase, not in "betting" and not as a loss.
C6_UnpaidWinStaysWin == [](C6_StateOk) /\ [][C6_StepOk]_vars

C6_Witness ==
    /\ game = "coinflip" /\ UnpaidWin /\ wpc = "idle"
    /\ gameResult = "win" /\ gamePhase = "result" /\ Len(history) = 1

\* C9: no payout transfer is signed or submitted when the house balance does
\* not cover the amount plus the fee reserve.
C9_NoSigningWhenInsufficient ==
    /\ payoutSigned # "no"
    /\ payoutTx # "failed"

\* C11: a failed payout transfer is retried: settlement of a won wager never
\* ends (handler over, processPayout returned) on a failure after a single
\* attempt.
C11_FailedPayoutIsRetried ==
    ~ (UnpaidWin /\ wpc = "idle" /\ payoutAttempts = 1)

\* C14: a game that draws from a ledger seed never draws without it: when
\* the seed cannot be obtained the wager stays unresolved, and no crash point
\* exists that was not derived from the ledger digest.
C14_NoDrawWithoutSeed ==
    (UsesLedgerSeed(game) /\ drawn) => seedFetched

\* the coin flip wager is resolved: the fair result is shown
CoinFlipResolved == game = "coinflip" /\ drawn /\ gameResult \in {"win", "lose"}

\* C25: a coin flip pays 2 x stake on a win and nothing on a loss:
\* processPayout is called, with amount = stake x 2, iff the fair result is a
\* win; a lost wager ends without any payout request.
C25_CoinFlipPaysDouble ==
    /\ CoinFlipResolved => gameResult = outcome
    /\ (CoinFlipResolved /\ outcome = "win") =>
           /\ payoutAttempts = 1
           /\ payoutAmount = 2 * stake
    /\ (CoinFlipResolved /\ outcome = "lose") =>
           /\ payoutAttempts = 0
           /\ payoutPc = "none"
           /\ payoutTx = "none"
           /\ wpc = "idle"
    /\ (game = "coinflip" /\ payoutAttempts > 0) => (drawn /\ outcome = "win")

\* a won coin flip whose payout request has returned
C25_Witness ==
    /\ CoinFlipResolved /\ outcome = "win" /\ stake > 0
    /\ payoutAmount = 2 * stake
    /\ payoutPc = "returned"

\* C29: processPayout returns success, with a signature, only when the
\* payout transfer was confirmed on the ledger without error; a failed send,
\* a confirmation error or a non-OK answer of the API gives success = false
\* with an error message.
C29_SuccessMeansConfirmed ==
    payoutPc = "returned" =>
        /\ payoutRes.success => (payoutTx = "executed" /\ payoutRes.signature # 0)
        /\ payoutTx = "failed" => ~payoutRes.success
        /\ ~payoutRes.success => payoutRes.error # ""

\* ========================================================= the outcome draws
\* Wagers of one player whose draws run at the same time (two tabs, or two
\* game components), each from its first seed fetch to its outcome.

PLAYER == "P1"
HOUSE_EDGE_PERCENT == 1         \* HOUSE_EDGE = 0.01
COIN_WIN_CHANCE == 50

\* the base58 blockhash of the block of slot s
Blockhash(s) == "H" \o ToString(s)

\* `${blockhash}-${slot}-${userSeed}`
CombinedSeed(blockhash, slot, userSeed) ==
    blockhash \o "-" \o ToString(slot) \o "-" \o userSeed

\* `${fairResult.blockhash}-${fairResult.slot}-${publicKey.toBase58()}-dice`
DiceSeed(blockhash, slot, userSeed) == CombinedSeed(blockhash, slot, userSeed) \o "-dice"

\* `${blockhash}-crash-${Date.now()}`
CrashSeed(blockhash, t) == blockhash \o "-crash-" \o ToString(t)

\* Stand-in for the first byte of crypto.subtle.digest("SHA-256", seed): a
\* fixed function of the components the seed string is made of (kind: 1 the
\* combined seed, 2 the dice seed, 3 the crash seed).
Sha256Byte(a, b, kind) == (a * 131 + b * 31 + kind * 17 + 7) % 256

\* generateProvablyFairResult: randomPercent = byte / 255 * 100 < winChance
Won(byte, winChance) == byte * 100 < winChance * 255

\* rollDice: Math.floor((hashArray[0] / 255) * 99) + 1
RollResult(byte) == (byte * 99) \div 255 + 1

\* generateCrashPoint without Math.min(point, 1000)
CrashPoint_NoCeiling(byte) ==
    IF byte * 100 < HOUSE_EDGE_PERCENT * 256 THEN 100
    ELSE LET point == (99 * 256 * 100) \div (256 - byte)
         IN  IF point < 100 THEN 100 ELSE point

\* generateCrashPoint with 0.99 / (1 - value) in place of 99 / (1 - value)
CrashPoint_UnitCurve(byte) ==
    IF byte * 100 < HOUSE_EDGE_PERCENT * 256 THEN 100
    ELSE LET point == (99 * 256) \div (256 - byte)
         IN  IF point < 100 THEN 100 ELSE IF point > 100000 THEN 100000 ELSE point

\* generateCrashPoint, in hundredths, from value = byte / 256
CrashPoint(byte) ==
    IF byte * 100 < HOUSE_EDGE_PERCENT * 256 THEN 100
    ELSE LET point == (99 * 256 * 100) \div (256 - byte)
         IN  IF point < 100 THEN 100 ELSE IF point > 100000 THEN 100000 ELSE point

\* what Math.random can make of a draw
RandomValues == {0, 1}

\* the wager's draw begins: a seed game calls getLatestBlockhash
FairDrawBegins(w, g) ==
    /\ draws[w].pc = "idle"
    /\ IF w = 1 THEN TRUE ELSE draws[w - 1].pc # "idle"
    /\ UsesLedgerSeed(g)
    /\ draws' = [draws EXCEPT ![w].game = g, ![w].pc = "blockhash"]
    /\ UNCHANGED <<serverVars, playVars, table, slotsVars, extraVars, ledgerSlot, now>>

\* slots, roulette, plinko, blackjack: the draw is Math.random; the payout
\* request carries blockhash "" and slot 0
RandomDraw(w, g, v) ==
    /\ draws[w].pc = "idle"
    /\ IF w = 1 THEN TRUE ELSE draws[w - 1].pc # "idle"
    /\ ~UsesLedgerSeed(g)
    /\ draws' = [draws EXCEPT ![w].game = g, ![w].pc = "done", ![w].outcome = v]
    /\ UNCHANGED <<serverVars, playVars, table, slotsVars, extraVars, ledgerSlot, now>>

\* await connection.getLatestBlockhash(COMMITMENT) returns; crash goes on to
\* its seed, digest and crash point
DrawBlockhashReturns(w) ==
    /\ draws[w].pc = "blockhash"
    /\ LET b == Blockhash(ledgerSlot)
       IN  IF draws[w].game = "crash"
           THEN draws' = [draws EXCEPT ![w].blockhash = b, ![w].blockSlot = ledgerSlot,
                              ![w].pc = "done",
                              ![w].seed = CrashSeed(b, now),
                              ![w].outcome = CrashPoint(Sha256Byte(ledgerSlot, now, 3))]
           ELSE draws' = [draws EXCEPT ![w].blockhash = b, ![w].blockSlot = ledgerSlot,
                              ![w].pc = "slot"]
    /\ UNCHANGED <<serverVars, playVars, table, slotsVars, extraVars, ledgerSlot, now>>

\* await connection.getSlot(COMMITMENT) returns: combined seed, digest,
\* outcome; blockhash and slot are kept with the result
DrawSlotReturns(w) ==
    /\ draws[w].pc = "slot"
    /\ LET b == draws[w].blockhash
           hashed == draws[w].blockSlot
           byte == Sha256Byte(hashed, ledgerSlot, 1)
       IN  draws' = [draws EXCEPT
                        ![w].pc = "done",
                        ![w].slot = ledgerSlot,
                        ![w].seed = CombinedSeed(b, ledgerSlot, PLAYER),
                        ![w].outcome = IF draws[w].game = "dice"
                                       THEN RollResult(Sha256Byte(hashed, ledgerSlot, 2))
                                       ELSE IF Won(byte, COIN_WIN_CHANCE) THEN 1 ELSE 0,
                        ![w].recorded = [blockhash |-> b, slot |-> ledgerSlot]]
    /\ UNCHANGED <<serverVars, playVars, table, slotsVars, extraVars, ledgerSlot, now>>

\* the ledger produces the next block
SlotAdvances ==
    /\ ledgerSlot < MaxSlot
    /\ ledgerSlot' = ledgerSlot + 1
    /\ UNCHANGED <<serverVars, playVars, table, slotsVars, extraVars, now, draws>>

\* a millisecond passes
ClockAdvances ==
    /\ now < MaxNow
    /\ now' = now + 1
    /\ UNCHANGED <<serverVars, playVars, table, slotsVars, extraVars, ledgerSlot, draws>>

SeedInit ==
    /\ houseKeypair = TRUE /\ ServerIdle /\ houseBalance = 0
    /\ localSigner = FALSE /\ game = "coinflip" /\ WagerIdle
    /\ SeedIdle
    /\ TableIdle
    /\ SlotsIdle
    /\ ExtraIdle

SeedNext ==
    \/ \E w \in Wagers, g \in Games : FairDrawBegins(w, g)
    \/ \E w \in Wagers, g \in Games, v \in RandomValues : RandomDraw(w, g, v)
    \/ \E w \in Wagers : DrawBlockhashReturns(w)
    \/ \E w \in Wagers : DrawSlotReturns(w)
    \/ SlotAdvances
    \/ ClockAdvances

SpecSeed == SeedInit /\ [][SeedNext]_vars

\* ========================================================== claims, SpecSeed

\* C15: seed material is never reused across wagers: no two wagers, even of
\* the same player within the same blockhash and slot, hash the same seed
\* string.
C15_SeedNeverReused ==
    \A w1, w2 \in Wagers :
        (w1 # w2 /\ draws[w1].seed # "" /\ draws[w2].seed # "")
            => draws[w1].seed # draws[w2].seed

\* C16: every game's outcome is a function of its recorded seed material:
\* two draws of the same game with the same recorded blockhash and slot (and
\* the same player) have the same outcome.
C16_OutcomeReplayable ==
    \A w1, w2 \in Wagers :
        (/\ draws[w1].pc = "done" /\ draws[w2].pc = "done"
         /\ draws[w1].game = draws[w2].game
         /\ draws[w1].recorded = draws[w2].recorded)
            => draws[w1].outcome = draws[w2].outcome

\* ===================================================== stakes and blackjack
\* One game component from its bet input to the settled round, with the
\* amounts it validates, escrows and pays.  Stakes are in milli-SOL, payouts
\* in micro-SOL (blackjack pays 2.5 x).

MIN_BET == 1                    \* 0.001 SOL, every game
MAX_BET_CONFIG == 10000         \* GAME_CONFIG.maxBet, dice and crash MAX_BET = 10
MAX_BET_TABLE == 5000           \* slots, plinko and blackjack MAX_BET = 5
MICRO_PER_MILLI == 1000
PlayerBalance == 12000          \* what the player's wallet holds, milli-SOL

\* bet amounts a player types in
Amounts == {0, MIN_BET, MAX_BET_TABLE, MAX_BET_TABLE + 1, MAX_BET_CONFIG, MAX_BET_CONFIG + 1}
\* CHIP_VALUES offered, the two largest
Chips == {500, 1000}

MinBet(g) == MIN_BET
MaxBet(g) == IF g \in {"slots", "plinko", "blackjack"} THEN MAX_BET_TABLE ELSE MAX_BET_CONFIG

\* the handler's checks of the typed amount: validateBet, or the inline
\* checks of placeBet / spin / dropBall / deal
ValidBet(g, amount) ==
    /\ amount >= MinBet(g)
    /\ amount <= MaxBet(g)
    /\ amount <= PlayerBalance

\* handlePayout(amount, result) as the handler that calls it sees isDoubled
HandlePayout(amount, result, doubled) ==
    LET totalWageredForRound == IF doubled THEN amount * 2 ELSE amount
    IN  IF result = "blackjack" THEN (amount * 5 * MICRO_PER_MILLI) \div 2
        ELSE IF result = "win" THEN totalWageredForRound * 2 * MICRO_PER_MILLI
        ELSE IF result = "push" THEN totalWageredForRound * MICRO_PER_MILLI
        ELSE 0

StakeInit ==
    /\ houseKeypair = TRUE /\ ServerIdle /\ houseBalance = 0
    /\ localSigner = FALSE /\ game = "coinflip" /\ WagerIdle
    /\ SeedIdle
    /\ SlotsIdle
    /\ ExtraIdle
    /\ \E g \in Games : table = [NoTable EXCEPT !.game = g]

\* flipCoin / rollDice / placeBet / spin / dropBall with betAmount = amount:
\* rejected with an error, or the stake is transferred and the draw made
PlaceStake(amount) ==
    /\ table.game \notin {"roulette", "blackjack"}
    /\ table.phase = "betting"
    /\ table.rounds < MaxRounds
    /\ IF ValidBet(table.game, amount)
       THEN table' = [table EXCEPT !.betAmount = amount, !.escrowed = amount, !.drawn = TRUE,
                                   !.phase = "result", !.error = "", !.rounds = @ + 1]
       ELSE table' = [table EXCEPT !.betAmount = amount, !.error = "bet"]
    /\ UNCHANGED <<serverVars, playVars, seedVars, slotsVars, extraVars>>

\* roulette addBet with selectedChip = chip
AddBet(chip) ==
    /\ table.game = "roulette"
    /\ table.phase = "betting"
    /\ IF table.bets + chip > PlayerBalance
       THEN table' = [table EXCEPT !.error = "Insufficient balance"]
       ELSE table' = [table EXCEPT !.bets = @ + chip, !.error = ""]
    /\ UNCHANGED <<serverVars, playVars, seedVars, slotsVars, extraVars>>

\* roulette spin: totalBet is transferred and the number drawn
Spin ==
    /\ table.game = "roulette"
    /\ table.phase = "betting"
    /\ table.rounds < MaxRounds
    /\ table.bets > 0
    /\ table.bets <= PlayerBalance
    /\ table' = [table EXCEPT !.escrowed = table.bets, !.drawn = TRUE, !.phase = "result",
                                !.error = "", !.rounds = @ + 1]
    /\ UNCHANGED <<serverVars, playVars, seedVars, slotsVars, extraVars>>

\* blackjack deal with betAmount = amount: setIsDoubled(false), the checks,
\* the stake, the shuffle and the four cards; a natural is settled by the
\* handlePayout of the render deal was called in
Deal(amount, o) ==
    /\ table.game = "blackjack"
    /\ table.phase = "betting"
    /\ table.rounds < MaxRounds
    /\ o \in {"blackjack", "push", "play"}
    /\ IF ~ValidBet("blackjack", amount)
       THEN table' = [table EXCEPT !.betAmount = amount, !.isDoubled = FALSE, !.error = "bet",
                                   !.result = "none"]
       ELSE IF o = "play"
       THEN table' = [table EXCEPT !.betAmount = amount, !.isDoubled = FALSE, !.error = "",
                                   !.escrowed = amount, !.drawn = TRUE, !.cards = 2,
                                   !.result = "none", !.phase = "playing", !.rounds = @ + 1]
       ELSE table' = [table EXCEPT !.betAmount = amount, !.isDoubled = FALSE, !.error = "",
                                   !.escrowed = amount, !.drawn = TRUE, !.cards = 2,
                                   !.result = o, !.phase = "result", !.rounds = @ + 1,
                                   !.payout = HandlePayout(amount, o, table.isDoubled)]
    /\ UNCHANGED <<serverVars, playVars, seedVars, slotsVars, extraVars>>

\* blackjack hit: one more card, a bust loses
Hit(bust) ==
    /\ table.game = "blackjack"
    /\ table.phase = "playing"
    /\ table.cards < 4
    /\ IF bust
       THEN table' = [table EXCEPT !.cards = @ + 1, !.result = "lose", !.phase = "result",
                                   !.payout = HandlePayout(table.betAmount, "lose", table.isDoubled)]
       ELSE table' = [table EXCEPT !.cards = @ + 1]
    /\ UNCHANGED <<serverVars, playVars, seedVars, slotsVars, extraVars>>

\* blackjack stand: the dealer plays and the round is settled
Stand(o) ==
    /\ table.game = "blackjack"
    /\ table.phase = "playing"
    /\ o \in {"win", "lose", "push"}
    /\ table' = [table EXCEPT !.result = o, !.phase = "result",
                                !.payout = HandlePayout(table.betAmount, o, table.isDoubled)]
    /\ UNCHANGED <<serverVars, playVars, seedVars, slotsVars, extraVars>>

\* blackjack doubleDown: a second transfer of betAmount, setIsDoubled(true),
\* one card, then a bust or stand(); it settles through the handlePayout of
\* the render doubleDown was called in, which has the isDoubled of that render
DoubleDown(o) ==
    /\ table.game = "blackjack"
    /\ table.phase = "playing"
    /\ table.cards = 2
    /\ table.betAmount <= PlayerBalance
    /\ o \in {"win", "lose", "push"}
    /\ table' = [table EXCEPT !.escrowed = @ + table.betAmount, !.isDoubled = TRUE,
                                !.cards = 3, !.result = o, !.phase = "result",
                                !.payout = HandlePayout(table.betAmount, o, table.isDoubled)]
    /\ UNCHANGED <<serverVars, playVars, seedVars, slotsVars, extraVars>>

\* newGame / resetGame: back to betting
NewGame ==
    /\ table.phase = "result"
    /\ table' = [table EXCEPT !.phase = "betting", !.bets = 0, !.escrowed = 0, !.drawn = FALSE,
                                !.cards = 0, !.payout = 0, !.error = "",
                                !.result = "none"]
    /\ UNCHANGED <<serverVars, playVars, seedVars, slotsVars, extraVars>>

StakeNext ==
    \/ \E amount \in Amounts : PlaceStake(amount)
    \/ \E chip \in Chips : AddBet(chip)
    \/ Spin
    \/ \E amount \in Amounts, o \in {"blackjack", "push", "play"} : Deal(amount, o)
    \/ \E bust \in BOOLEAN : Hit(bust)
    \/ \E o \in {"win", "lose", "push"} : Stand(o)
    \/ \E o \in {"win", "lose", "push"} : DoubleDown(o)
    \/ NewGame

SpecStake == StakeInit /\ [][StakeNext]_vars

\* ========================================================= claims, SpecStake

\* C17: no stake is transferred and no draw is made for a wager whose total
\* stake is outside the game's [minBet, maxBet], roulette's summed bets and a
\* blackjack round's stake after a double down included.
C17_StakeWithinLimits ==
    (table.escrowed > 0 \/ table.drawn) =>
        /\ table.escrowed >= MinBet(table.game)
        /\ table.escrowed <= MaxBet(table.game)

\* the total return for a result, micro-SOL per milli-SOL of stake
ReturnPerMilli(result) ==
    IF result = "blackjack" THEN 2500
    ELSE IF result = "win" THEN 2000
    ELSE IF result = "push" THEN 1000
    ELSE 0

\* C20: a settled blackjack round returns 2.5 x, 2 x, 1 x or 0 x the total
\* stake escrowed for the round (blackjack, win, push, loss), also after a
\* double down.
C20_BlackjackReturns ==
    (table.game = "blackjack" /\ table.result # "none") =>
        table.payout = ReturnPerMilli(table.result) * table.escrowed

\* ========================================================= the slots jackpot
\* Slots sessions (tabs) of one browser: each has its own jackpot state,
\* read from localStorage "slots_jackpot" when the component mounts and
\* written back by the effect after every change.  Amounts are in units of
\* 0.00001 SOL, so that 2% of the smallest stake is a whole number.

MaxSpins == 2                       \* spins per tab in one run
INITIAL_JACKPOT == 500000000        \* 5000 SOL
JACKPOT_CONTRIBUTION_PERCENT == 2   \* JACKPOT_CONTRIBUTION = 0.02
Tabs == {1, 2}
SlotStakes == {100, 200}            \* 0.001 and 0.002 SOL

\* one reel stop for every branch of calculateWin
Reels == {<<"seven", "seven", "seven">>, <<"cherry", "cherry", "cherry">>,
          <<"seven", "seven", "lemon">>, <<"lemon", "cherry", "cherry">>,
          <<"lemon", "seven", "lemon">>, <<"seven", "cherry", "lemon">>}

\* PAYOUTS[s].three, 0 standing for "JACKPOT"
PayThree(s) ==
    IF s = "seven" THEN 0 ELSE IF s = "diamond" THEN 500 ELSE IF s = "clover" THEN 100
    ELSE IF s = "bell" THEN 50 ELSE IF s = "star" THEN 25 ELSE IF s = "cherry" THEN 10 ELSE 5
\* PAYOUTS[s].two
PayTwo(s) ==
    IF s = "seven" THEN 50 ELSE IF s = "diamond" THEN 25 ELSE IF s = "clover" THEN 10
    ELSE IF s = "bell" THEN 5 ELSE IF s = "star" THEN 3 ELSE 2

IsJackpot(symbols) ==
    symbols[1] = symbols[2] /\ symbols[2] = symbols[3] /\ PayThree(symbols[1]) = 0

\* calculateWin without its last branch, two of a kind first and last
CalculateWin_NoFirstLast(symbols, betAmt, jackpot) ==
    IF symbols[1] = symbols[2] /\ symbols[2] = symbols[3]
    THEN IF PayThree(symbols[1]) = 0 THEN jackpot ELSE betAmt * PayThree(symbols[1])
    ELSE IF symbols[1] = symbols[2] THEN betAmt * PayTwo(symbols[1])
    ELSE IF symbols[2] = symbols[3] THEN betAmt * PayTwo(symbols[2])
    ELSE 0

\* calculateWin(symbols, betAmt).amount, with the jackpot the function closed over
CalculateWin(symbols, betAmt, jackpot) ==
    IF symbols[1] = symbols[2] /\ symbols[2] = symbols[3]
    THEN IF PayThree(symbols[1]) = 0 THEN jackpot ELSE betAmt * PayThree(symbols[1])
    ELSE IF symbols[1] = symbols[2] THEN betAmt * PayTwo(symbols[1])
    ELSE IF symbols[2] = symbols[3] THEN betAmt * PayTwo(symbols[2])
    ELSE IF symbols[1] = symbols[3] THEN betAmt * PayTwo(symbols[1])
    ELSE 0

\* amount * JACKPOT_CONTRIBUTION
Contribution(amount) == (amount * JACKPOT_CONTRIBUTION_PERCENT) \div 100

SlotsInit ==
    /\ houseKeypair = TRUE /\ ServerIdle /\ houseBalance = 0
    /\ localSigner = FALSE /\ game = "coinflip" /\ WagerIdle
    /\ SeedIdle
    /\ TableIdle
    /\ SlotsIdle
    /\ ExtraIdle

\* the component mounts: useState reads the stored pool, the effect writes it
Mount(t) ==
    /\ ~slotsTabs[t].mounted
    /\ LET j == IF slotsStored = 0 THEN INITIAL_JACKPOT ELSE slotsStored
       IN  /\ slotsTabs' = [slotsTabs EXCEPT ![t].mounted = TRUE, ![t].jackpot = j]
           /\ slotsStored' = j
    /\ UNCHANGED <<serverVars, playVars, seedVars, table, extraVars>>

\* spin with betAmount = amount, from the click to the started reels: the
\* stake is confirmed, setJackpot adds the contribution (and the effect
\* stores the new value), the final reels are drawn.  The timers the handler
\* sets up keep the calculateWin, and with it the jackpot, of the render the
\* click happened in.
SpinBegins(t, amount, symbols) ==
    /\ slotsTabs[t].mounted
    /\ slotsTabs[t].pc = "idle"
    /\ slotsTabs[t].spins < MaxSpins
    /\ LET j == slotsTabs[t].jackpot + Contribution(amount)
       IN  /\ slotsTabs' = [slotsTabs EXCEPT ![t].pc = "spinning", ![t].stake = amount,
                                  ![t].reels = symbols, ![t].closure = slotsTabs[t].jackpot,
                                  ![t].jackpot = j, ![t].winAmount = 0,
                                  ![t].spins = @ + 1]
           /\ slotsStored' = j
    /\ UNCHANGED <<serverVars, playVars, seedVars, table, extraVars>>

\* the last reel has stopped: calculateWin, setWinAmount, and on a jackpot
\* setJackpot(INITIAL_JACKPOT)
SpinResult(t) ==
    /\ slotsTabs[t].pc = "spinning"
    /\ LET amount == CalculateWin(slotsTabs[t].reels, slotsTabs[t].stake, slotsTabs[t].closure)
       IN  IF IsJackpot(slotsTabs[t].reels)
           THEN /\ slotsTabs' = [slotsTabs EXCEPT ![t].pc = "idle", ![t].winAmount = amount,
                                       ![t].jackpot = INITIAL_JACKPOT]
                /\ slotsStored' = INITIAL_JACKPOT
           ELSE /\ slotsTabs' = [slotsTabs EXCEPT ![t].pc = "idle", ![t].winAmount = amount]
                /\ UNCHANGED slotsStored
    /\ UNCHANGED <<serverVars, playVars, seedVars, table, extraVars>>

SlotsNext ==
    \/ \E t \in Tabs : Mount(t)
    \/ \E t \in Tabs, amount \in SlotStakes, symbols \in Reels : SpinBegins(t, amount, symbols)
    \/ \E t \in Tabs : SpinResult(t)

SpecSlots == SlotsInit /\ [][SlotsNext]_vars

\* ========================================================= claims, SpecSlots

\* tab t's spin ends in this step with three sevens
JackpotHit(t) ==
    /\ slotsTabs[t].pc = "spinning" /\ slotsTabs'[t].pc = "idle"
    /\ IsJackpot(slotsTabs[t].reels)

C18_StepOk ==
    \A t \in Tabs :
        JackpotHit(t) =>
            /\ slotsTabs'[t].winAmount = slotsTabs[t].jackpot
            /\ slotsTabs'[t].jackpot = INITIAL_JACKPOT
            /\ slotsStored' = INITIAL_JACKPOT

\* C18: a jackpot hit pays the full pool as it stands at the hit, the 2% of
\* the winning wager's own stake included, and resets the pool to 5000.
C18_JackpotPaysFullPool == [][C18_StepOk]_vars

\* tab t's spin contributes to the pool in this step
Contributes(t) == slotsTabs[t].pc = "idle" /\ slotsTabs'[t].pc = "spinning"

C19_StepOk ==
    \A t \in Tabs :
        Contributes(t) => slotsStored' = slotsStored + Contribution(slotsTabs'[t].stake)

\* C19: the stored pool is one shared counter: every wager of every session
\* adds its 2% to what the pool holds at that time, so no contribution is
\* lost and no reset is overwritten by a stale value.
C19_PoolIsSharedCounter == [][C19_StepOk]_vars

\* ============================================================ a crash round
\* One round of CrashGame from the started run loop to the reset after the
\* crash.  Multipliers and the crash point are in hundredths (100 is 1.00x),
\* amounts in milli-SOL, winnings in milli-SOL hundredths.

MaxStep == 3          \* largest growth of the rounded multiplier between two ticks
MaxCrashRounds == 2   \* rounds in one run
\* 1.00 for a draw below the house edge, two values of the fallback 1.5 + Math.random() * 2
CrashPoints == {100, 150, 158}
AutoCashouts == {0, 100, 103, 153}   \* parseFloat(autoCashout) * 100, 0 when the field is empty
CrashStakes == {1, 2}

\* placeBet after generateCrashPoint, and startRunLoop(point, amount) with the
\* first tick, which it runs at once: no time has passed, the rounded
\* multiplier is 1.00
StartRunLoop(amount, point, auto) ==
    /\ crash.gameState = "waiting"
    /\ ~crash.betPlaced
    /\ crash.rounds < MaxCrashRounds
    /\ LET c == [crash EXCEPT !.betPlaced = TRUE,
                              !.amount = amount, !.point = point, !.autoCashout = auto,
                              !.multiplier = 100, !.elapsed = 100,
                              !.cashedOut = FALSE, !.rounds = @ + 1]
       IN  IF 100 >= point
           THEN crash' = [c EXCEPT !.multiplier = point, !.gameState = "crashed",
                                   !.losses = @ + 1]
           ELSE crash' = [c EXCEPT !.gameState = "running"]
    /\ UNCHANGED notCrashVars

\* handleCashoutLogic(multiplierAtCashout, amount), requested at multiplier `requested`
HandleCashoutLogic(c, multiplierAtCashout, requested) ==
    IF c.cashedOut THEN c
    ELSE [c EXCEPT !.cashedOut = TRUE, !.cashoutMultiplier = multiplierAtCashout,
                   !.requested = requested,
                   !.winnings = c.amount * multiplierAtCashout]

\* a later tick of the run loop; the rounded multiplier has grown by `step`
\* since the tick before
Tick(step) ==
    /\ crash.gameState = "running"
    /\ LET roundedMultiplier == crash.elapsed + step
           c == [crash EXCEPT !.elapsed = roundedMultiplier]
       IN  IF roundedMultiplier >= crash.point
           THEN crash' = [c EXCEPT !.multiplier = crash.point, !.gameState = "crashed",
                                   !.losses = IF crash.cashedOut THEN @ ELSE @ + 1]
           ELSE LET shown == [c EXCEPT !.multiplier = roundedMultiplier]
                IN  IF /\ ~crash.cashedOut
                       /\ crash.autoCashout > 100
                       /\ roundedMultiplier >= crash.autoCashout
                    THEN crash' = HandleCashoutLogic(shown, roundedMultiplier, crash.autoCashout)
                    ELSE crash' = shown
    /\ UNCHANGED notCrashVars

\* the cash out button
HandleManualCashout ==
    /\ crash.betPlaced /\ ~crash.cashedOut /\ crash.gameState = "running"
    /\ crash' = HandleCashoutLogic(crash, crash.multiplier, crash.multiplier)
    /\ UNCHANGED notCrashVars

\* the timer set at the crash, 3 s later
RoundReset ==
    /\ crash.gameState = "crashed"
    /\ crash' = [crash EXCEPT !.betPlaced = FALSE, !.cashedOut = FALSE,
                              !.cashoutMultiplier = 0, !.gameState = "waiting",
                              !.multiplier = 100, !.winnings = 0, !.requested = 0]
    /\ UNCHANGED notCrashVars

CrashInit ==
    /\ houseKeypair = TRUE /\ ServerIdle /\ houseBalance = 0
    /\ localSigner = FALSE /\ game = "crash" /\ WagerIdle
    /\ SeedIdle
    /\ TableIdle
    /\ SlotsIdle
    /\ ExtraIdle

CrashNext ==
    \/ \E amount \in CrashStakes, point \in CrashPoints, auto \in AutoCashouts :
           StartRunLoop(amount, point, auto)
    \/ \E step \in 0..MaxStep : Tick(step)
    \/ HandleManualCashout
    \/ RoundReset

SpecCrash == CrashInit /\ [][CrashNext]_vars

\* ========================================================= claims, SpecCrash

Min(a, b) == IF a < b THEN a ELSE b

\* C21: a cashout before the crash pays stake x min(requested cashout, crash
\* point), so an auto-cashout at v below the crash point pays exactly v and
\* no cashout pays at or above the crash point; without a cashout the round
\* pays nothing.
C21_CrashPayout ==
    /\ crash.cashedOut =>
           /\ crash.winnings = crash.amount * Min(crash.requested, crash.point)
           /\ crash.winnings < crash.amount * crash.point
    /\ ~crash.cashedOut => crash.winnings = 0

\* ==================================================== the crash point alone
\* generateCrashPoint as a function of its draw, value = byte / 256.

\* the draws: every byte near the house edge and from the ceiling on, every
\* second one between
Bytes == {b \in 0..255 : b < 8 \/ b % 2 = 0 \/ b >= 228}
FallbackPoints == {150, 250, 349}   \* 1.5 + Math.random() * 2, in hundredths
MaxCalls == 2

notCrashDrawVars == <<serverVars, playVars, seedVars, table, slotsVars, crash, wheel, dice, rpc, blackjack, launch, plinko, slotWin, fair, coin>>

\* generateCrashPoint with the hash's draw `byte`
GenerateCrashPoint(byte) ==
    /\ crashDraw.calls < MaxCalls
    /\ crashDraw' = [prev |-> crashDraw.last,
                     last |-> [value |-> byte, point |-> CrashPoint(byte)],
                     calls |-> crashDraw.calls + 1]
    /\ UNCHANGED notCrashDrawVars

\* generateCrashPoint when getLatestBlockhash or the digest throws
GenerateCrashPointCatch(point) ==
    /\ crashDraw.calls < MaxCalls
    /\ crashDraw' = [prev |-> crashDraw.last,
                     last |-> [value |-> -1, point |-> point],
                     calls |-> crashDraw.calls + 1]
    /\ UNCHANGED notCrashDrawVars

CrashPointInit ==
    /\ houseKeypair = TRUE /\ ServerIdle /\ houseBalance = 0
    /\ localSigner = FALSE /\ game = "crash" /\ WagerIdle
    /\ SeedIdle
    /\ TableIdle
    /\ SlotsIdle
    /\ ExtraIdle

CrashPointNext ==
    \/ \E byte \in Bytes : GenerateCrashPoint(byte)
    \/ \E point \in FallbackPoints : GenerateCrashPointCatch(point)

SpecCrashPoint == CrashPointInit /\ [][CrashPointNext]_vars

\* =================================================== claims, SpecCrashPoint

\* value < HOUSE_EDGE
BelowHouseEdge(d) == d.value >= 0 /\ d.value * 100 < HOUSE_EDGE_PERCENT * 256
\* value >= HOUSE_EDGE
FromHouseEdge(d) == d.value >= 0 /\ d.value * 100 >= HOUSE_EDGE_PERCENT * 256

\* C22: the crash point is non-decreasing in the draw for draws from the
\* house edge on, is exactly 1.00 for every draw below the house edge, and
\* never exceeds 1000.
C22_CrashPointShape ==
    /\ crashDraw.last.point <= 100000
    /\ BelowHouseEdge(crashDraw.last) => crashDraw.last.point = 100
    /\ (/\ FromHouseEdge(crashDraw.prev) /\ FromHouseEdge(crashDraw.last)
        /\ crashDraw.prev.value <= crashDraw.last.value)
           => crashDraw.prev.point <= crashDraw.last.point

\* two draws from the house edge on, the larger one cut at the ceiling
C22_Witness ==
    /\ FromHouseEdge(crashDraw.prev)
    /\ crashDraw.prev.value < crashDraw.last.value
    /\ crashDraw.prev.point < crashDraw.last.point
    /\ crashDraw.last.point = 100000
    /\ (99 * 256 * 100) \div (256 - crashDraw.last.value) > 100000

\* C37: a crash point derived from a digest is exactly 1.00 or lies between
\* 100.00 and 1000.00: none lies strictly between 1.00 and 100.00.
C37_NoPointBetween1And100 ==
    crashDraw.last.value >= 0 =>
        \/ crashDraw.last.point = 100
        \/ crashDraw.last.point >= 10000 /\ crashDraw.last.point <= 100000

\* the smallest draw from the house edge on gives 100.17, after a draw below
\* the house edge that gave 1.00
C37_Witness ==
    /\ BelowHouseEdge(crashDraw.prev) /\ crashDraw.prev.point = 100
    /\ FromHouseEdge(crashDraw.last)
    /\ crashDraw.last.point > 10000 /\ crashDraw.last.point < 10100

\* ========================================================= a roulette round
\* RouletteGame from the first chip to the settled spin.  Amounts are in
\* milli-SOL; a bet is [type, value, amount], value -1 when the type has none.

MaxChips == 3         \* chips on the table in one round
MaxSpinRounds == 2    \* rounds in one run
RED_NUMBERS == {1, 3, 5, 7, 9, 12, 14, 16, 18, 19, 21, 23, 25, 27, 30, 32, 34, 36}
WheelNumbers == 0..36                 \* Math.floor(Math.random() * 37)
OutsideTypes == {"red", "black", "even", "odd", "low", "high"}
\* the fields of the table a player clicks: every outside bet, two numbers
BetFields == [type : OutsideTypes, value : {-1}] \cup [type : {"number"}, value : {0, 17}]

notWheelVars == <<serverVars, playVars, seedVars, table, slotsVars, crash, crashDraw, dice, rpc, blackjack, launch, plinko, slotWin, fair, coin>>

\* getNumberColor with 0 taken for red
GetNumberColor_ZeroRed(num) == IF num = 0 \/ num \in RED_NUMBERS THEN "red" ELSE "black"

GetNumberColor(num) ==
    IF num = 0 THEN "green" ELSE IF num \in RED_NUMBERS THEN "red" ELSE "black"

\* what the forEach of spin adds to totalWin for one bet
BetWin(bet, winningNumber) ==
    IF bet.type = "number"
    THEN IF bet.value = winningNumber THEN bet.amount * 36 ELSE 0
    ELSE IF bet.type = "red"
    THEN IF GetNumberColor(winningNumber) = "red" THEN bet.amount * 2 ELSE 0
    ELSE IF bet.type = "black"
    THEN IF GetNumberColor(winningNumber) = "black" THEN bet.amount * 2 ELSE 0
    ELSE IF bet.type = "even"
    THEN IF winningNumber # 0 /\ winningNumber % 2 = 0 THEN bet.amount * 2 ELSE 0
    ELSE IF bet.type = "odd"
    THEN IF winningNumber % 2 = 1 THEN bet.amount * 2 ELSE 0
    ELSE IF bet.type = "low"
    THEN IF winningNumber >= 1 /\ winningNumber <= 18 THEN bet.amount * 2 ELSE 0
    ELSE IF bet.type = "high"
    THEN IF winningNumber >= 19 /\ winningNumber <= 36 THEN bet.amount * 2 ELSE 0
    ELSE 0

RECURSIVE TotalWin(_, _)
TotalWin(bets, winningNumber) ==
    IF bets = <<>> THEN 0
    ELSE BetWin(Head(bets), winningNumber) + TotalWin(Tail(bets), winningNumber)

RECURSIVE TotalBet(_)
\* totalBet = bets.reduce((sum, b) => sum + b.amount, 0)
TotalBet(bets) == IF bets = <<>> THEN 0 ELSE Head(bets).amount + TotalBet(Tail(bets))

\* bets.findIndex((b) => b.type === type && b.value === value), 0 for -1
FindIndex(bets, field) ==
    LET found == {i \in 1..Len(bets) : bets[i].type = field.type /\ bets[i].value = field.value}
    IN  IF found = {} THEN 0 ELSE CHOOSE i \in found : \A j \in found : i <= j

\* chips put down, counted in the smallest chip offered
ChipsDown(bets) == TotalBet(bets) \div 500

\* addBet(type, value) with selectedChip = chip
RouletteAddBet(field, chip) ==
    /\ wheel.gamePhase = "betting"
    /\ wheel.rounds < MaxSpinRounds
    /\ ChipsDown(wheel.bets) + chip \div 500 <= MaxChips
    /\ IF TotalBet(wheel.bets) + chip > PlayerBalance
       THEN wheel' = [wheel EXCEPT !.error = "Insufficient balance"]
       ELSE LET existingIndex == FindIndex(wheel.bets, field)
            IN  IF existingIndex > 0
                THEN wheel' = [wheel EXCEPT !.error = "",
                                            !.bets[existingIndex].amount = @ + chip]
                ELSE wheel' = [wheel EXCEPT !.error = "",
                                            !.bets = Append(@, [type |-> field.type,
                                                                value |-> field.value,
                                                                amount |-> chip])]
    /\ UNCHANGED notWheelVars

ClearBets ==
    /\ wheel.gamePhase = "betting"
    /\ wheel.bets # <<>>
    /\ wheel' = [wheel EXCEPT !.bets = <<>>, !.error = ""]
    /\ UNCHANGED notWheelVars

UndoBet ==
    /\ wheel.gamePhase = "betting"
    /\ wheel.bets # <<>>
    /\ wheel' = [wheel EXCEPT !.bets = SubSeq(@, 1, Len(@) - 1)]
    /\ UNCHANGED notWheelVars

\* spin, the stake transfer confirmed: the number is drawn, the winnings are
\* summed over the bets, a win is sent to processPayout
RouletteSpin(winningNumber) ==
    /\ wheel.gamePhase = "betting"
    /\ wheel.rounds < MaxSpinRounds
    /\ wheel.bets # <<>>
    /\ TotalBet(wheel.bets) <= PlayerBalance
    /\ LET totalWin == TotalWin(wheel.bets, winningNumber)
       IN  wheel' = [wheel EXCEPT !.error = "", !.escrowed = TotalBet(wheel.bets),
                                  !.result = winningNumber, !.winAmount = totalWin,
                                  !.payoutRequested = totalWin,
                                  !.gamePhase = "result", !.rounds = @ + 1]
    /\ UNCHANGED notWheelVars

RouletteNewGame ==
    /\ wheel.gamePhase = "result"
    /\ wheel' = [wheel EXCEPT !.bets = <<>>, !.result = -1, !.winAmount = 0,
                              !.escrowed = 0, !.payoutRequested = 0,
                              !.gamePhase = "betting"]
    /\ UNCHANGED notWheelVars

RouletteInit ==
    /\ houseKeypair = TRUE /\ ServerIdle /\ houseBalance = 0
    /\ localSigner = FALSE /\ game = "roulette" /\ WagerIdle
    /\ SeedIdle
    /\ TableIdle
    /\ SlotsIdle
    /\ ExtraIdle

RouletteNext ==
    \/ \E field \in BetFields, chip \in Chips : RouletteAddBet(field, chip)
    \/ ClearBets
    \/ UndoBet
    \/ \E winningNumber \in WheelNumbers : RouletteSpin(winningNumber)
    \/ RouletteNewGame

SpecRoulette == RouletteInit /\ [][RouletteNext]_vars

\* ===================================================== claims, SpecRoulette

\* the numbers an outside bet wins on
WinsOn(type) ==
    IF type = "red" THEN RED_NUMBERS
    ELSE IF type = "black" THEN (1..36) \ RED_NUMBERS
    ELSE IF type = "even" THEN {2 * k : k \in 1..18}
    ELSE IF type = "odd" THEN {2 * k - 1 : k \in 1..18}
    ELSE IF type = "low" THEN 1..18
    ELSE 19..36

\* the amount placed on a field
Placed(type, value) ==
    LET i == FindIndex(wheel.bets, [type |-> type, value |-> value])
    IN  IF i = 0 THEN 0 ELSE wheel.bets[i].amount

\* the payout the paytable gives for the spun number
PaytableWin ==
    36 * Placed("number", wheel.result)
      + 2 * Placed("red", -1) * (IF wheel.result \in WinsOn("red") THEN 1 ELSE 0)
      + 2 * Placed("black", -1) * (IF wheel.result \in WinsOn("black") THEN 1 ELSE 0)
      + 2 * Placed("even", -1) * (IF wheel.result \in WinsOn("even") THEN 1 ELSE 0)
      + 2 * Placed("odd", -1) * (IF wheel.result \in WinsOn("odd") THEN 1 ELSE 0)
      + 2 * Placed("low", -1) * (IF wheel.result \in WinsOn("low") THEN 1 ELSE 0)
      + 2 * Placed("high", -1) * (IF wheel.result \in WinsOn("high") THEN 1 ELSE 0)

\* C23: a spin selects one number in 0..36 and pays the sum of 36 x amount
\* for a straight bet on it and 2 x amount for every winning red/black,
\* even/odd, low/high bet; on 0 every outside bet loses.
C23_RoulettePaytable ==
    wheel.gamePhase = "result" =>
        /\ wheel.result \in 0..36
        /\ wheel.winAmount = PaytableWin
        /\ wheel.payoutRequested = wheel.winAmount
        /\ wheel.result = 0 => wheel.winAmount = 36 * Placed("number", 0)

\* a spin of 0 with a straight bet on 0 and an outside bet on the table
C23_Witness ==
    /\ wheel.gamePhase = "result"
    /\ wheel.result = 0
    /\ Placed("number", 0) > 0
    /\ \E type \in OutsideTypes : Placed(type, -1) > 0
    /\ wheel.winAmount = 36 * Placed("number", 0)

\* ============================================================= a dice round
\* DiceGame from the target slider to the settled roll.  Stakes are in
\* milli-SOL, payouts in micro-SOL.

MaxRolls == 2                    \* rolls in one run
Targets == {2, 49, 50, 98}       \* slider positions, min 2 and max 98
DiceStakes == {1, 2}

notDiceVars == <<serverVars, playVars, seedVars, table, slotsVars, crash, crashDraw, wheel, rpc, blackjack, launch, plinko, slotWin, fair, coin>>

\* winChance = rollOver ? 100 - target : target
WinChance(rollOver, target) == IF rollOver THEN 100 - target ELSE target

\* didWin = rollOver ? rollResult > target : rollResult < target
DidWin(rollOver, rollResult, target) ==
    IF rollOver THEN rollResult > target ELSE rollResult < target

\* amount * multiplier, multiplier = ((1 - HOUSE_EDGE) * 100) / winChance
DicePayout(amount, winChance) ==
    (amount * MICRO_PER_MILLI * (100 - HOUSE_EDGE_PERCENT)) \div winChance

\* the slider and the direction buttons are disabled only while a roll is
\* processed
SetTarget(t) ==
    /\ dice.gamePhase \in {"betting", "result"}
    /\ dice' = [dice EXCEPT !.target = t]
    /\ UNCHANGED notDiceVars

SetRollOver(b) ==
    /\ dice.gamePhase \in {"betting", "result"}
    /\ dice' = [dice EXCEPT !.rollOver = b]
    /\ UNCHANGED notDiceVars

\* rollDice with betAmount = amount, the stake confirmed and the hash's first
\* byte `byte`
RollDice(amount, byte) ==
    /\ dice.gamePhase = "betting"
    /\ dice.rounds < MaxRolls
    /\ LET winChance == WinChance(dice.rollOver, dice.target)
           rollResult == RollResult(byte)
           didWin == DidWin(dice.rollOver, rollResult, dice.target)
       IN  dice' = [dice EXCEPT !.gamePhase = "result", !.rounds = @ + 1,
                       !.round = [amount |-> amount, target |-> dice.target,
                                  rollOver |-> dice.rollOver, winChance |-> winChance,
                                  result |-> rollResult, won |-> didWin,
                                  payout |-> IF didWin THEN DicePayout(amount, winChance)
                                             ELSE 0]]
    /\ UNCHANGED notDiceVars

DiceResetGame ==
    /\ dice.gamePhase = "result"
    /\ dice' = [dice EXCEPT !.gamePhase = "betting"]
    /\ UNCHANGED notDiceVars

DiceInit ==
    /\ houseKeypair = TRUE /\ ServerIdle /\ houseBalance = 0
    /\ localSigner = FALSE /\ game = "dice" /\ WagerIdle
    /\ SeedIdle
    /\ TableIdle
    /\ SlotsIdle
    /\ ExtraIdle

DiceNext ==
    \/ \E t \in Targets : SetTarget(t)
    \/ \E b \in BOOLEAN : SetRollOver(b)
    \/ \E amount \in DiceStakes, byte \in 0..255 : RollDice(amount, byte)
    \/ DiceResetGame

SpecDice == DiceInit /\ [][DiceNext]_vars

\* ========================================================= claims, SpecDice

\* the roll values 1..100 that win a bet
WinningRolls(rollOver, target) == {v \in 1..100 : DidWin(rollOver, v, target)}

\* C24: for the target and direction of a rolled bet, as many roll values in
\* 1..100 win as the win chance that prices it (100 - target over, target
\* under); a win pays stake x (1 - houseEdge) x 100 / winChance, a loss nothing.
C24_DiceWinMatchesChance ==
    dice.gamePhase = "result" =>
        LET r == dice.round
        IN  /\ r.winChance = IF r.rollOver THEN 100 - r.target ELSE r.target
            /\ Cardinality(WinningRolls(r.rollOver, r.target)) = r.winChance
            /\ r.won => r.payout * r.winChance <= r.amount * MICRO_PER_MILLI * 99
            /\ r.won => (r.payout + 1) * r.winChance > r.amount * MICRO_PER_MILLI * 99
            /\ ~r.won => r.payout = 0

\* ====================================================== ledger balance reads
\* The balance reads of the client (getBalance) and of the payout server
\* (GET /api/house/balance, the check in POST /api/payout) over RPC endpoints
\* that fail and recover.  Endpoint e is the e-th configured URL.

MaxReads == 3         \* balance reads in one run
Endpoints == 1..3

notRpcVars == <<serverVars, playVars, seedVars, table, slotsVars, crash, crashDraw, wheel, dice, blackjack, launch, plinko, slotWin, fair, coin>>

\* the endpoints after `first`, in the configured order, round the list
RECURSIVE Rotation(_, _)
Rotation(first, n) ==
    IF n = 0 THEN <<>>
    ELSE <<first>> \o Rotation((first % 3) + 1, n - 1)

\* the configured list without `primary`, in its order
RECURSIVE Fallbacks(_, _)
Fallbacks(e, primary) ==
    IF e > 3 THEN <<>>
    ELSE (IF e = primary THEN <<>> ELSE <<e>>) \o Fallbacks(e + 1, primary)

\* the first endpoint of `tried` that answers, 0 when none does
FirstUp(tried, up) ==
    LET answering == {i \in 1..Len(tried) : up[tried[i]]}
    IN  IF answering = {} THEN 0
        ELSE tried[CHOOSE i \in answering : \A j \in answering : i <= j]

Read(op, tried) ==
    [op |-> op, ok |-> FirstUp(tried, rpc.up) # 0, by |-> FirstUp(tried, rpc.up),
     tried |-> tried, up |-> rpc.up]

\* an endpoint starts or stops failing
EndpointChanges(e) ==
    /\ rpc' = [rpc EXCEPT !.up[e] = ~@]
    /\ UNCHANGED notRpcVars

\* client getBalance on a connection to `primary`: the primary, then every
\* FALLBACK_RPCS entry that is not the primary
GetBalance(primary) ==
    /\ rpc.reads < MaxReads
    /\ rpc' = [rpc EXCEPT !.last = Read("getBalance", <<primary>> \o Fallbacks(1, primary)),
                          !.reads = @ + 1]
    /\ UNCHANGED notRpcVars

\* GET /api/house/balance: the current connection, on failure rotateConnection
\* and one more attempt
HouseBalance ==
    /\ rpc.reads < MaxReads
    /\ IF rpc.up[rpc.connection]
       THEN rpc' = [rpc EXCEPT !.last = Read("house", <<rpc.connection>>), !.reads = @ + 1]
       ELSE rpc' = [rpc EXCEPT !.connection = (@ % 3) + 1,
                               !.last = Read("house", Rotation(rpc.connection, 2)),
                               !.reads = @ + 1]
    /\ UNCHANGED notRpcVars

\* POST /api/payout, the house balance check: the current connection only
PayoutBalance ==
    /\ rpc.reads < MaxReads
    /\ rpc' = [rpc EXCEPT !.last = Read("payout", <<rpc.connection>>), !.reads = @ + 1]
    /\ UNCHANGED notRpcVars

RpcInit ==
    /\ houseKeypair = TRUE /\ ServerIdle /\ houseBalance = 0
    /\ localSigner = FALSE /\ game = "coinflip" /\ WagerIdle
    /\ SeedIdle
    /\ TableIdle
    /\ SlotsIdle
    /\ ExtraIdle

RpcNext ==
    \/ \E e \in Endpoints : EndpointChanges(e)
    \/ \E primary \in Endpoints : GetBalance(primary)
    \/ HouseBalance
    \/ PayoutBalance

SpecRpc == RpcInit /\ [][RpcNext]_vars

\* ========================================================== claims, SpecRpc

\* the endpoints a read may use: the one it starts with, then the others in
\* the configured order
Configured(read) ==
    IF read.op = "getBalance" THEN <<read.tried[1]>> \o Fallbacks(1, read.tried[1])
    ELSE Rotation(read.tried[1], 3)

\* C26: a balance read fails only when the primary and every configured
\* fallback endpoint fail, and otherwise returns the balance of the first
\* endpoint that answers.
C26_BalanceReadUsesFallbacks ==
    rpc.last.op # "none" =>
        LET first == FirstUp(Configured(rpc.last), rpc.last.up)
        IN  /\ rpc.last.ok <=> first # 0
            /\ rpc.last.ok => rpc.last.by = first

\* ============================================== claims, SpecServer (marker)

\* C30: the in-flight marker is always released: pendingPayouts holds a
\* gameId only while a request for it is executing, whichever way the
\* requests for it ended.
C30_MarkerReleased ==
    \A g \in pendingPayouts : InFlight(g) # {}

\* requests have ended with a confirmed payout, with an insufficient
\* balance and in the catch block, and no marker is left
C30_Witness ==
    /\ pendingPayouts = {}
    /\ \E r1, r2, r3 \in Requests :
          /\ IsFreshSuccess(r1)
          /\ IsInsufficient(r2)
          /\ req[r3].pc = "done" /\ req[r3].res.error = "rpc error"

\* =============================================== claims, SpecServer (custody)

\* the session's wager was escrowed and resolved as a win paying body.amount
\* to body.playerWallet
IsWonWager(body) ==
    /\ escrow = "executed" /\ drawn /\ outcome = "win"
    /\ payoutAmount = body.amount
    /\ body.playerWallet = PLAYER

\* C27: the server moves funds out of the house wallet only for a wager whose
\* stake was escrowed and that was resolved as a win with that payout; a
\* request that corresponds to no such wager causes no transfer.
C27_TransferOnlyForWonWager ==
    \A r \in Requests : ledger[r] # "none" => IsWonWager(req[r].body)

\* ========================================================= winners' requests
\* The payout server with the requests that the game components send for
\* won wagers: each names its round by the game and the client's clock.

Players == {"P1", "P2"}
WinnerGames == {"coinflip", "slots"}

\* `game_${Date.now()}`, `slots_${Date.now()}`, ...
GameId(g, t) == (IF g = "coinflip" THEN "game" ELSE g) \o "_" \o ToString(t)

\* the processPayout request of a wager that `player` won at `g` now; a
\* player's component of one game sends one request at a time
WinnerPosts(r, player, g) ==
    /\ \A r0 \in Requests :
          ~(req[r0].body.playerWallet = player /\ req[r0].body.gameId = GameId(g, now))
    /\ PostPayout(r, [playerWallet |-> player, amount |-> 1, gameId |-> GameId(g, now)])

WinnersInit ==
    /\ houseKeypair = TRUE
    /\ ServerIdle
    /\ houseBalance = 0
    /\ localSigner = FALSE
    /\ game = "coinflip"
    /\ WagerIdle
    /\ SeedIdle
    /\ TableIdle
    /\ SlotsIdle
    /\ ExtraIdle

WinnersNext ==
    \/ \E r \in Requests, player \in Players, g \in WinnerGames : WinnerPosts(r, player, g)
    \/ ClockAdvances
    \/ \E r \in Requests : GetBalanceReturns(r)
    \/ \E r \in Requests : GetBlockhashReturns(r)
    \/ \E r \in Requests : SendReturns(r)
    \/ \E r \in Requests : RpcThrows(r)
    \/ \E r \in Requests : ConfirmReturns(r)
    \/ \E r \in Requests : LedgerProcess(r)
    \/ TopUp

SpecWinners == WinnersInit /\ [][WinnersNext]_vars

\* ====================================================== claims, SpecWinners

Posted(r) == req[r].pc # "new"

\* C28: two distinct winning wagers never share a gameId, and no request is
\* answered from the record of a different wager: a request answered as paid
\* had its own transfer, to its own player's wallet.
C28_NoAnswerFromOtherWager ==
    /\ \A r1, r2 \in Requests :
          (r1 # r2 /\ Posted(r1) /\ Posted(r2)) => req[r1].body.gameId # req[r2].body.gameId
    /\ \A r \in Requests :
          (req[r].pc = "done" /\ req[r].res.status = 200) =>
              /\ ledger[r] = "executed"
              /\ \E i \in 1..Len(payoutHistory) :
                    /\ payoutHistory[i].gameId = req[r].body.gameId
                    /\ payoutHistory[i].playerWallet = req[r].body.playerWallet
                    /\ payoutHistory[i].signature = req[r].res.signature

\* ======================================================== a blackjack round
\* BlackjackGame by its cards.  A card is its index in the order createDeck
\* pushes them: suit by suit, each suit from A to K.  A hand is a sequence of
\* cards with their faceUp flag.

MaxDeals == 2                    \* rounds dealt in one run
TopLen == 5                      \* cards of the shuffle that are drawn from TopCards
DECK_SIZE == 52
RANKS_PER_SUIT == 13
BLACKJACK == 21
DEALER_STANDS == 17
\* 5, 6, 10 of spades, 9 and 10 of hearts, ace of hearts
TopCards == {4, 5, 9, 21, 22, 13}

notBlackjackVars == <<serverVars, playVars, seedVars, table, slotsVars, crash, crashDraw, wheel,
                      dice, rpc, launch, plinko, slotWin, fair, coin>>

\* the shuffles dealt from: a permutation of the 52 cards whose first TopLen
\* cards are any arrangement of TopCards and whose rest is in created order
Tops == {t \in [1..TopLen -> TopCards] : \A i, j \in 1..TopLen : t[i] = t[j] => i = j}

Range(f) == {f[i] : i \in DOMAIN f}

CreateDeck(top) ==
    LET rest == SelectSeq([i \in 1..DECK_SIZE |-> i - 1], LAMBDA c : c \notin Range(top))
    IN  top \o rest

\* getCardValue: A is 11, J Q K are 10, the others their number
GetCardValue(c) ==
    LET rank == c % RANKS_PER_SUIT
    IN  IF rank = 0 THEN 11 ELSE IF rank >= 10 THEN 10 ELSE rank + 1

IsAce(c) == c % RANKS_PER_SUIT = 0

RECURSIVE SumFaceUp(_)
SumFaceUp(hand) ==
    IF hand = <<>> THEN 0
    ELSE (IF Head(hand).faceUp THEN GetCardValue(Head(hand).card) ELSE 0) + SumFaceUp(Tail(hand))

RECURSIVE AcesFaceUp(_)
AcesFaceUp(hand) ==
    IF hand = <<>> THEN 0
    ELSE (IF Head(hand).faceUp /\ IsAce(Head(hand).card) THEN 1 ELSE 0) + AcesFaceUp(Tail(hand))

\* while (value > 21 && aces > 0) { value -= 10; aces-- }
RECURSIVE SoftenAces(_, _)
SoftenAces(value, aces) ==
    IF value > BLACKJACK /\ aces > 0 THEN SoftenAces(value - 10, aces - 1) ELSE value

CalculateHandValue(hand) == SoftenAces(SumFaceUp(hand), AcesFaceUp(hand))

IsBlackjack(hand) == Len(hand) = 2 /\ CalculateHandValue(hand) = BLACKJACK

FaceUp(c) == [card |-> c, faceUp |-> TRUE]
FaceDown(c) == [card |-> c, faceUp |-> FALSE]
Revealed(hand) == [i \in DOMAIN hand |-> [hand[i] EXCEPT !.faceUp = TRUE]]

\* dealerPlay's loop: draw while below 17 and the deck has cards
RECURSIVE DealerDraws(_, _)
DealerDraws(currentDealerHand, currentDeck) ==
    IF CalculateHandValue(currentDealerHand) < DEALER_STANDS /\ currentDeck # <<>>
    THEN DealerDraws(Append(currentDealerHand, Head(currentDeck)), Tail(currentDeck))
    ELSE [dealerHand |-> currentDealerHand, deck |-> currentDeck]

\* dealerPlay's comparison
DealerPlayResult(playerValue, dealerValue) ==
    IF dealerValue > BLACKJACK THEN "win"
    ELSE IF playerValue > dealerValue THEN "win"
    ELSE IF playerValue < dealerValue THEN "lose"
    ELSE "push"

\* stand() of a render whose playerHand, dealerHand and deck are the
\* arguments: what it sets the dealer's hand, the deck and the result to;
\* setDeck is called only when the dealer draws
StandOf(playerHand, dealerHand, deck) ==
    LET played == DealerDraws(Revealed(dealerHand), [i \in DOMAIN deck |-> FaceUp(deck[i])])
    IN  [dealerHand |-> played.dealerHand,
         drew |-> Len(played.dealerHand) > Len(dealerHand),
         deck |-> [i \in DOMAIN played.deck |-> played.deck[i].card],
         gameResult |-> DealerPlayResult(CalculateHandValue(playerHand),
                                         CalculateHandValue(played.dealerHand))]

\* deal: the stake transfer fails (phase back to betting), or the deck is
\* created and four cards dealt, a natural settled at once
BlackjackDeal(top, transferred) ==
    /\ blackjack.gamePhase = "betting"
    /\ blackjack.deals < MaxDeals
    /\ IF ~transferred
       THEN blackjack' = [blackjack EXCEPT !.gameResult = "none", !.doubled = FALSE]
       ELSE LET newDeck == CreateDeck(top)
                pHand == <<FaceUp(newDeck[1]), FaceUp(newDeck[3])>>
                dHand == <<FaceUp(newDeck[2]), FaceDown(newDeck[4])>>
                currentDeck == SubSeq(newDeck, 5, Len(newDeck))
            IN  IF IsBlackjack(pHand)
                THEN blackjack' = [blackjack EXCEPT
                         !.deck = currentDeck, !.playerHand = pHand,
                         !.dealerHand = Revealed(dHand), !.doubled = FALSE,
                         !.gameResult = IF IsBlackjack(Revealed(dHand)) THEN "push"
                                        ELSE "blackjack",
                         !.gamePhase = "result", !.deals = @ + 1]
                ELSE blackjack' = [blackjack EXCEPT
                         !.deck = currentDeck, !.playerHand = pHand, !.dealerHand = dHand,
                         !.doubled = FALSE, !.gameResult = "none", !.gamePhase = "playing",
                         !.deals = @ + 1]
    /\ UNCHANGED notBlackjackVars

\* hit: the top card to the player, a bust loses and reveals the dealer
BlackjackHit ==
    /\ blackjack.gamePhase = "playing"
    /\ blackjack.deck # <<>>
    /\ LET newHand == Append(blackjack.playerHand, FaceUp(Head(blackjack.deck)))
       IN  IF CalculateHandValue(newHand) > BLACKJACK
           THEN blackjack' = [blackjack EXCEPT
                    !.playerHand = newHand, !.deck = Tail(@), !.gameResult = "lose",
                    !.gamePhase = "result", !.dealerHand = Revealed(@)]
           ELSE blackjack' = [blackjack EXCEPT !.playerHand = newHand, !.deck = Tail(@)]
    /\ UNCHANGED notBlackjackVars

\* stand: the dealer's hand is revealed and played, the hands compared
BlackjackStand ==
    /\ blackjack.gamePhase = "playing"
    /\ LET s == StandOf(blackjack.playerHand, blackjack.dealerHand, blackjack.deck)
       IN  blackjack' = [blackjack EXCEPT
               !.dealerHand = s.dealerHand,
               !.deck = IF s.drew THEN s.deck ELSE @,
               !.gameResult = s.gameResult, !.gamePhase = "result"]
    /\ UNCHANGED notBlackjackVars

\* doubleDown: the second transfer fails (nothing dealt), or one card goes to
\* the player and, without a bust, stand() is called: the stand of the render
\* doubleDown was clicked in, with that render's playerHand, dealerHand, deck
BlackjackDoubleDown(transferred) ==
    /\ blackjack.gamePhase = "playing"
    /\ Len(blackjack.playerHand) = 2
    /\ blackjack.deck # <<>>
    /\ IF ~transferred
       THEN UNCHANGED blackjack
       ELSE LET newHand == Append(blackjack.playerHand, FaceUp(Head(blackjack.deck)))
                s == StandOf(blackjack.playerHand, blackjack.dealerHand, blackjack.deck)
            IN  IF CalculateHandValue(newHand) > BLACKJACK
                THEN blackjack' = [blackjack EXCEPT
                         !.doubled = TRUE, !.playerHand = newHand, !.deck = Tail(@),
                         !.gameResult = "lose", !.gamePhase = "result",
                         !.dealerHand = Revealed(@)]
                ELSE blackjack' = [blackjack EXCEPT
                         !.doubled = TRUE, !.playerHand = newHand,
                         !.dealerHand = s.dealerHand,
                         !.deck = IF s.drew THEN s.deck ELSE Tail(@),
                         !.gameResult = s.gameResult, !.gamePhase = "result"]
    /\ UNCHANGED notBlackjackVars

\* newGame: the hands are cleared, the deck is left as it is
BlackjackNewGame ==
    /\ blackjack.gamePhase = "result"
    /\ blackjack' = [blackjack EXCEPT !.playerHand = <<>>, !.dealerHand = <<>>,
                                      !.gameResult = "none", !.gamePhase = "betting"]
    /\ UNCHANGED notBlackjackVars

BlackjackInit ==
    /\ houseKeypair = TRUE /\ ServerIdle /\ houseBalance = 0
    /\ localSigner = FALSE /\ game = "blackjack" /\ WagerIdle
    /\ SeedIdle
    /\ TableIdle
    /\ SlotsIdle
    /\ ExtraIdle

BlackjackNext ==
    \/ \E top \in Tops, transferred \in BOOLEAN : BlackjackDeal(top, transferred)
    \/ BlackjackHit
    \/ BlackjackStand
    \/ \E transferred \in BOOLEAN : BlackjackDoubleDown(transferred)
    \/ BlackjackNewGame

SpecBlackjack == BlackjackInit /\ [][BlackjackNext]_vars

\* ===================================================== claims, SpecBlackjack

\* the cards of a hand
Cards(hand) == [i \in DOMAIN hand |-> hand[i].card]

\* the cards on the table and in the deck, one after the other
AllCards == Cards(blackjack.playerHand) \o Cards(blackjack.dealerHand) \o blackjack.deck

\* C31: within a dealt round the player's hand, the dealer's hand and the
\* remaining deck hold each of the 52 cards exactly once, whatever was dealt,
\* hit, doubled or drawn by the dealer.
C31_NoCardDealtTwice ==
    blackjack.gamePhase \in {"playing", "dealer", "result"} =>
        /\ Len(AllCards) = DECK_SIZE
        /\ Range(AllCards) = 0..(DECK_SIZE - 1)

\* C32: a round settled as win, lose or push is settled on the player's
\* complete hand and the dealer's final hand: a player total above 21 loses;
\* otherwise the dealer has drawn to 17 or more, and the round is won iff the
\* dealer busts or the player's total is higher, pushed iff the totals are
\* equal, lost otherwise.
C32_ResultFromFinalHands ==
    blackjack.gameResult \in {"win", "lose", "push"} =>
        LET p == CalculateHandValue(blackjack.playerHand)
            d == CalculateHandValue(blackjack.dealerHand)
        IN  IF p > BLACKJACK THEN blackjack.gameResult = "lose"
            ELSE /\ d >= DEALER_STANDS
                 /\ blackjack.gameResult = "win" <=> (d > BLACKJACK \/ p > d)
                 /\ blackjack.gameResult = "push" <=> (d <= BLACKJACK /\ p = d)
                 /\ blackjack.gameResult = "lose" <=> (d <= BLACKJACK /\ p < d)

\* ==================================================== crash bets in flight
\* CrashGame with every placeBet call from its click to the reset after its
\* crash.  The calls share the component's state and refs; each has its own
\* run loop with its own point and amount.  Multipliers in hundredths.

LaunchPoints == {100, 150}       \* crash points of the run loops
LaunchLevels == {100, 101, 102, 150}   \* rounded multipliers a tick can compute
LaunchAutos == {0, 101}          \* parseFloat(autoCashout) * 100, 0 when empty
LaunchStake == 1

notLaunchVars == <<serverVars, playVars, seedVars, table, slotsVars, crash, crashDraw, wheel,
                   dice, rpc, blackjack, plinko, slotWin, fair, coin>>

LaunchBets == DOMAIN launch.bets

\* the Launch Game button is rendered
LaunchButton == launch.gameState = "waiting" /\ ~launch.betPlaced

\* the autoCashout input, disabled while betPlaced
SetAutoCashout(v) ==
    /\ ~launch.betPlaced
    /\ launch' = [launch EXCEPT !.autoCashout = v]
    /\ UNCHANGED notLaunchVars

\* placeBet up to sendTransaction: the checks pass and the stake transfer is
\* handed to the wallet; nothing of the component's state has changed
PlaceBet(b) ==
    /\ LaunchButton
    /\ launch.bets[b].pc = "idle"
    /\ \A a \in LaunchBets : a < b => launch.bets[a].pc # "idle"
    /\ launch' = [launch EXCEPT !.bets[b].pc = "submitted", !.bets[b].amount = LaunchStake]
    /\ UNCHANGED notLaunchVars

\* sendTransaction or confirmTransaction throws: the catch sets the error
BetFails(b) ==
    /\ launch.bets[b].pc = "submitted"
    /\ launch' = [launch EXCEPT !.bets[b].pc = "failed"]
    /\ UNCHANGED notLaunchVars

\* the stake transfer is confirmed: setBetPlaced(true), then generateCrashPoint
\* is awaited
BetConfirmed(b) ==
    /\ launch.bets[b].pc = "submitted"
    /\ launch' = [launch EXCEPT !.bets[b].pc = "placed", !.betPlaced = TRUE]
    /\ UNCHANGED notLaunchVars

\* handleCashoutLogic(multiplierAtCashout, amount) for the bet b it pays
LaunchCashoutLogic(l, b) ==
    IF l.cashedOutRef THEN l
    ELSE [l EXCEPT !.cashedOutRef = TRUE, !.cashedOut = TRUE,
                   !.bets[b].wins = @ + 1, !.bets[b].payoutRequests = @ + 1]

\* one run of tick() of bet b's loop, which computes roundedMultiplier
LaunchTickOf(l, b, roundedMultiplier) ==
    LET t == [l EXCEPT !.bets[b].elapsed = roundedMultiplier]
    IN  IF roundedMultiplier >= l.bets[b].point
        THEN [t EXCEPT !.multiplier = l.bets[b].point, !.shownBy = b, !.gameState = "crashed",
                       !.losses = IF l.cashedOutRef THEN @ ELSE @ + 1,
                       !.bets[b].pc = "crashed"]
        ELSE LET shown == [t EXCEPT !.multiplier = roundedMultiplier, !.shownBy = b]
             IN  IF /\ ~l.cashedOutRef
                    /\ l.autoCashout > 100
                    /\ roundedMultiplier >= l.autoCashout
                 THEN LaunchCashoutLogic(shown, b)
                 ELSE shown

\* generateCrashPoint returned `point`: setCrashPoint and startRunLoop(point,
\* amount), which resets cashedOutRef and cashedOut and runs the first tick
LaunchRunLoop(b, point) ==
    /\ launch.bets[b].pc = "placed"
    /\ LET started == [launch EXCEPT !.cashedOutRef = FALSE, !.cashedOut = FALSE,
                                     !.gameState = "running", !.multiplier = 100,
                                     !.shownBy = b,
                                     !.bets[b].pc = "running", !.bets[b].point = point]
       IN  launch' = LaunchTickOf(started, b, 100)
    /\ UNCHANGED notLaunchVars

\* a later tick of bet b's loop
LaunchTick(b, roundedMultiplier) ==
    /\ launch.bets[b].pc = "running"
    /\ roundedMultiplier >= launch.bets[b].elapsed
    /\ launch' = LaunchTickOf(launch, b, roundedMultiplier)
    /\ UNCHANGED notLaunchVars

\* the Sell / Cash Out button: it pays the multiplier on display
LaunchManualCashout ==
    /\ launch.gameState = "running" /\ ~launch.cashedOut
    /\ launch.betPlaced
    /\ launch.shownBy \in LaunchBets
    /\ launch' = LaunchCashoutLogic(launch, launch.shownBy)
    /\ UNCHANGED notLaunchVars

\* the timer bet b's loop set at its crash
LaunchReset(b) ==
    /\ launch.bets[b].pc = "crashed"
    /\ launch' = [launch EXCEPT !.betPlaced = FALSE, !.cashedOut = FALSE,
                                !.cashedOutRef = FALSE, !.gameState = "waiting",
                                !.multiplier = 100, !.bets[b].pc = "reset"]
    /\ UNCHANGED notLaunchVars

LaunchInit ==
    /\ houseKeypair = TRUE /\ ServerIdle /\ houseBalance = 0
    /\ localSigner = FALSE /\ game = "crash" /\ WagerIdle
    /\ SeedIdle
    /\ TableIdle
    /\ SlotsIdle
    /\ ExtraIdle

LaunchNext ==
    \/ \E v \in LaunchAutos : SetAutoCashout(v)
    \/ \E b \in LaunchBets : PlaceBet(b)
    \/ \E b \in LaunchBets : BetFails(b)
    \/ \E b \in LaunchBets : BetConfirmed(b)
    \/ \E b \in LaunchBets, point \in LaunchPoints : LaunchRunLoop(b, point)
    \/ \E b \in LaunchBets, m \in LaunchLevels : LaunchTick(b, m)
    \/ LaunchManualCashout
    \/ \E b \in LaunchBets : LaunchReset(b)

SpecLaunch == LaunchInit /\ [][LaunchNext]_vars

\* ======================================================== claims, SpecLaunch

\* a bet between the submission of its stake and the reset after its crash
InFlightBet(b) == launch.bets[b].pc \in {"submitted", "placed", "running", "crashed"}

\* C33: in a crash round at most one cashout takes effect: for each bet,
\* processPayout is requested at most once and at most one win is counted,
\* however the cash out button and the ticks' auto-cashout interleave.
C33_OneCashoutPerRound ==
    \A b \in LaunchBets :
        /\ launch.bets[b].payoutRequests <= 1
        /\ launch.bets[b].wins <= 1

\* C34: at most one crash round is in flight: no second bet has its stake
\* submitted or its run loop started while an earlier bet is between its
\* submission and the reset after its crash.
C34_OneRoundInFlight ==
    Cardinality({b \in LaunchBets : InFlightBet(b)}) <= 1

\* ============================================================ plinko balls
\* PlinkoGame from the risk level buttons and dropBall to the balls on the
\* board.  Stakes in milli-SOL, multipliers in tenths.  A ball carries, next
\* to its betAmount, the risk level selected when its stake was escrowed; the
\* component does not store it.

MaxDrops == 2                    \* dropBall calls that reach the stake transfer
SLOTS == 13
RiskLevels == {"low", "medium", "high"}
PlinkoStakes == {0, 1, 2}        \* 0 stands for an amount below MIN_BET

notPlinkoVars == <<serverVars, playVars, seedVars, table, slotsVars, crash, crashDraw, wheel,
                   dice, rpc, blackjack, launch, slotWin, fair, coin>>

\* MULTIPLIERS[riskLevel], slot 0 first
MULTIPLIERS(riskLevel) ==
    IF riskLevel = "low" THEN <<30, 15, 12, 10, 7, 4, 3, 4, 7, 10, 12, 15, 30>>
    ELSE IF riskLevel = "medium" THEN <<80, 30, 15, 5, 3, 2, 2, 2, 3, 5, 15, 30, 80>>
    ELSE <<500, 150, 50, 30, 15, 5, 2, 5, 15, 30, 50, 150, 500>>

\* the animation effect of a render with riskLevel `level` and balls `onBoard`: with
\* no ball it returns at once; otherwise it defines animate over that render's
\* multipliers and returns the cleanup.  It never calls animate and requests
\* no animation frame, so the closure is all that it leaves.
AnimationEffect(level, onBoard) == IF onBoard = <<>> THEN "none" ELSE level

\* what animate computes when a ball crosses the bottom line in `slot`:
\* amount = ball.betAmount * multipliers[slot], with the closure's multipliers
LandingAmount(ball, slot, multipliers) == ball.betAmount * multipliers[slot + 1]

\* a risk level button, disabled while sending; the effect depends on
\* multipliers and runs again
SetRiskLevel(level) ==
    /\ plinko.gamePhase # "sending"
    /\ plinko' = [plinko EXCEPT !.riskLevel = level,
                                !.effectRisk = AnimationEffect(level, plinko.balls)]
    /\ UNCHANGED notPlinkoVars

\* dropBall up to the stake transfer: the amount is rejected, or the phase is
\* "sending" and the transfer is on its way
DropBall(amount) ==
    /\ plinko.gamePhase # "sending"
    /\ plinko.drops < MaxDrops
    /\ IF amount < MIN_BET \/ amount > MAX_BET_TABLE \/ amount > PlayerBalance
       THEN plinko' = [plinko EXCEPT !.error = "bet"]
       ELSE plinko' = [plinko EXCEPT !.error = "", !.gamePhase = "sending", !.pc = "confirm",
                                    !.amount = amount, !.hadBalls = plinko.balls # <<>>,
                                    !.drops = @ + 1]
    /\ UNCHANGED notPlinkoVars

\* the stake transfer is confirmed: phase "dropping" and a new ball is
\* appended; balls.length has changed and the effect runs again
PlinkoStakeConfirmed ==
    /\ plinko.pc = "confirm"
    /\ LET newBall == [betAmount |-> plinko.amount, risk |-> plinko.riskLevel]
           nextBalls == Append(plinko.balls, newBall)
       IN  plinko' = [plinko EXCEPT !.pc = "idle", !.gamePhase = "dropping",
                                    !.balls = nextBalls,
                                    !.effectRisk = AnimationEffect(plinko.riskLevel, nextBalls)]
    /\ UNCHANGED notPlinkoVars

\* the transfer throws: the catch sets the error and goes back to betting
\* only if the render dropBall was clicked in had no ball
PlinkoStakeFails ==
    /\ plinko.pc = "confirm"
    /\ plinko' = [plinko EXCEPT !.pc = "idle", !.error = "Failed to place bet",
                                !.gamePhase = IF plinko.hadBalls THEN @ ELSE "betting"]
    /\ UNCHANGED notPlinkoVars

PlinkoInit ==
    /\ houseKeypair = TRUE /\ ServerIdle /\ houseBalance = 0
    /\ localSigner = FALSE /\ game = "plinko" /\ WagerIdle
    /\ SeedIdle
    /\ TableIdle
    /\ SlotsIdle
    /\ ExtraIdle

\* resetGame is left out: its button is rendered in phase "result" only,
\* which nothing but animate sets
PlinkoNext ==
    \/ \E level \in RiskLevels : SetRiskLevel(level)
    \/ \E amount \in PlinkoStakes : DropBall(amount)
    \/ PlinkoStakeConfirmed
    \/ PlinkoStakeFails

SpecPlinko == PlinkoInit /\ [][PlinkoNext]_vars

\* the ledger answers: a pending stake transfer is confirmed or fails
PlinkoFairness == WF_vars(PlinkoStakeConfirmed \/ PlinkoStakeFails)

SpecPlinkoFair == PlinkoInit /\ [][PlinkoNext]_vars /\ PlinkoFairness

\* ======================================================== claims, SpecPlinko

\* C35: every plinko wager whose escrow is confirmed is eventually resolved:
\* once a ball is on the board, eventually a ball has landed in a slot 0..12
\* and the phase is "result".
C35_DroppedBallResolves ==
    (plinko.balls # <<>>) ~>
        (plinko.gamePhase = "result" /\ plinko.recentLandedSlot \in 0..(SLOTS - 1))

MaxWinCalls == 2                 \* calls of calculateWin in one run
SYMBOLS == {"seven", "diamond", "clover", "bell", "star", "cherry", "lemon"}
ReelStops == [1..3 -> SYMBOLS]
Jackpots == {INITIAL_JACKPOT, INITIAL_JACKPOT + 4}

notSlotWinVars == <<serverVars, playVars, seedVars, table, slotsVars, crash, crashDraw, wheel,
                    dice, rpc, blackjack, launch, plinko, fair, coin>>

\* calculateWin(symbols, betAmt) of a render whose jackpot state is `jackpot`
CalculateWinCall(symbols, betAmt, jackpot) ==
    /\ slotWin.calls < MaxWinCalls
    /\ slotWin' = [symbols |-> symbols, betAmt |-> betAmt, jackpot |-> jackpot,
                   amount |-> CalculateWin(symbols, betAmt, jackpot),
                   calls |-> slotWin.calls + 1]
    /\ UNCHANGED notSlotWinVars

PaytableInit ==
    /\ houseKeypair = TRUE /\ ServerIdle /\ houseBalance = 0
    /\ localSigner = FALSE /\ game = "slots" /\ WagerIdle
    /\ SeedIdle
    /\ TableIdle
    /\ SlotsIdle
    /\ ExtraIdle

PaytableNext ==
    \E symbols \in ReelStops, betAmt \in SlotStakes, jackpot \in Jackpots :
        CalculateWinCall(symbols, betAmt, jackpot)

SpecPaytable == PaytableInit /\ [][PaytableNext]_vars

\* ====================================================== claims, SpecPaytable

\* the reels a symbol shows on
ReelsOf(symbols, s) == {i \in 1..3 : symbols[i] = s}

\* C38: calculateWin returns stake x the three-of-a-kind multiplier when all
\* three reels are equal (the jackpot for three 7s), stake x the two-of-a-kind
\* multiplier of the matching symbol when exactly two reels are equal, in any
\* two positions, and 0 when all three differ.
C38_CalculateWinPaytable ==
    slotWin.calls > 0 =>
        LET s == slotWin.symbols
            kinds == {s[i] : i \in 1..3}
        IN  /\ Cardinality(kinds) = 1 =>
                   slotWin.amount = IF s[1] = "seven" THEN slotWin.jackpot
                                    ELSE slotWin.betAmt * PayThree(s[1])
            /\ Cardinality(kinds) = 2 =>
                   \E m \in kinds :
                       /\ Cardinality(ReelsOf(s, m)) = 2
                       /\ slotWin.amount = slotWin.betAmt * PayTwo(m)
            /\ Cardinality(kinds) = 3 => slotWin.amount = 0

\* two diamonds on the first and the last reel around a lemon pay 25 x
C38_Witness ==
    /\ slotWin.calls > 0
    /\ slotWin.symbols = <<"diamond", "lemon", "diamond">>
    /\ slotWin.amount = slotWin.betAmt * 25
    /\ slotWin.amount > 0

\* ================================================= result and verification
\* generateProvablyFairResult and verifyResult over the digest they both
\* take of the seed string: `byte` is hashArray[0] of SHA-256(seed), the same
\* in both calls since verifyResult is given the seed that was returned.

MaxVerifications == 2            \* results generated and verified in one run
VERIFY_THRESHOLD == 128
\* coin flip passes 50, dice its winChance for the slider positions
WinChances == {COIN_WIN_CHANCE} \cup {WinChance(o, t) : o \in BOOLEAN, t \in Targets}

notFairVars == <<serverVars, playVars, seedVars, table, slotsVars, crash, crashDraw, wheel,
                 dice, rpc, blackjack, launch, plinko, slotWin, coin>>

\* result = won ? "heads" : "tails"
FairResult(byte, winChance) == IF Won(byte, winChance) THEN "heads" ELSE "tails"

\* verifyResult(seed, expectedResult): randomValue < 128 ? "heads" : "tails"
VerifyResult(byte, expectedResult) ==
    (IF byte < VERIFY_THRESHOLD THEN "heads" ELSE "tails") = expectedResult

Opposite(result) == IF result = "heads" THEN "tails" ELSE "heads"

\* generateProvablyFairResult(connection, winChance, userSeed) whose seed
\* hashes to `byte`, then verifyResult with the returned seed for the returned
\* result and for the other one
GenerateAndVerify(byte, winChance) ==
    /\ fair.calls < MaxVerifications
    /\ LET result == FairResult(byte, winChance)
       IN  fair' = [byte |-> byte, winChance |-> winChance, result |-> result,
                    won |-> Won(byte, winChance),
                    verified |-> VerifyResult(byte, result),
                    verifiedOpposite |-> VerifyResult(byte, Opposite(result)),
                    calls |-> fair.calls + 1]
    /\ UNCHANGED notFairVars

VerifyInit ==
    /\ houseKeypair = TRUE /\ ServerIdle /\ houseBalance = 0
    /\ localSigner = FALSE /\ game = "dice" /\ WagerIdle
    /\ SeedIdle
    /\ TableIdle
    /\ SlotsIdle
    /\ ExtraIdle

VerifyNext ==
    \E byte \in 0..255, winChance \in WinChances : GenerateAndVerify(byte, winChance)

SpecVerify == VerifyInit /\ [][VerifyNext]_vars

\* ======================================================== claims, SpecVerify

\* C39: verifyResult accepts exactly what generateProvablyFairResult
\* produced: with the returned seed it is true for the returned result and
\* false for the opposite result, for every digest and every winChance.
C39_VerifyAcceptsGenerated ==
    fair.calls > 0 => (fair.verified /\ ~fair.verifiedOpposite)

\* ======================================================= coin flip history
\* CoinFlipGame with the sides of a round: the side the player selected, the
\* side the coin shows and the entry useGameHistory records.

MaxFlips == 2                    \* flipCoin calls that pass validateBet
CoinSides == {"heads", "tails"}
CoinStakes == {1, 2}             \* betAmount, milli-SOL

notCoinVars == <<serverVars, playVars, seedVars, table, slotsVars, crash, crashDraw, wheel,
                 dice, rpc, blackjack, launch, plinko, slotWin, fair>>

\* coinResult = fairResult.won ? selectedSide : the other side
CoinResult(won, selectedSide) ==
    IF won THEN selectedSide
    ELSE IF selectedSide = "heads" THEN "tails" ELSE "heads"

\* the entry flipCoin hands to addEntry
CoinEntry(amount, selectedSide, byte) ==
    LET didWin == Won(byte, COIN_WIN_CHANCE)
    IN  [betAmount |-> amount,
         userChoice |-> selectedSide,
         result |-> FairResult(byte, COIN_WIN_CHANCE),
         won |-> didWin,
         payout |-> IF didWin THEN amount * WIN_MULTIPLIER ELSE 0]

\* handleSelectSide(side); the side buttons are part of the betting view
HandleSelectSide(side) ==
    /\ coin.gamePhase = "betting"
    /\ coin' = [coin EXCEPT !.selectedSide = side]
    /\ UNCHANGED notCoinVars

\* flipCoin with no side selected: validateBet sets the error and returns false
FlipCoinNoSide ==
    /\ coin.gamePhase = "betting"
    /\ coin.selectedSide = "none"
    /\ coin' = [coin EXCEPT !.error = "Please select heads or tails"]
    /\ UNCHANGED notCoinVars

\* flipCoin to its end: the stake transfer, the fair result from the digest
\* byte, the shown side, the payout request (its outcome changes no side) and
\* the history entry; a failed transfer ends in the catch block
FlipCoin(amount, byte, transferred) ==
    /\ coin.gamePhase = "betting"
    /\ coin.selectedSide \in CoinSides
    /\ coin.flips < MaxFlips
    /\ IF transferred
       THEN LET didWin == Won(byte, COIN_WIN_CHANCE)
                coinResult == CoinResult(didWin, coin.selectedSide)
            IN  coin' = [coin EXCEPT
                    !.gamePhase = "result",
                    !.result = coinResult,
                    !.gameResult = IF didWin THEN "win" ELSE "lose",
                    !.error = "",
                    !.history = AddEntry(@, CoinEntry(amount, coin.selectedSide, byte)),
                    !.shown = AddEntry(@, coinResult),
                    !.flips = @ + 1]
       ELSE coin' = [coin EXCEPT
                    !.gamePhase = "betting",
                    !.result = "none",
                    !.gameResult = "none",
                    !.error = "Failed to process bet. Please try again.",
                    !.flips = @ + 1]
    /\ UNCHANGED notCoinVars

\* resetGame, the Play Again button of the result view
CoinResetGame ==
    /\ coin.gamePhase = "result"
    /\ coin' = [coin EXCEPT
            !.gamePhase = "betting",
            !.result = "none",
            !.gameResult = "none",
            !.selectedSide = "none",
            !.error = ""]
    /\ UNCHANGED notCoinVars

CoinInit ==
    /\ houseKeypair = TRUE /\ ServerIdle /\ houseBalance = 0
    /\ localSigner = FALSE /\ game = "coinflip" /\ WagerIdle
    /\ SeedIdle
    /\ TableIdle
    /\ SlotsIdle
    /\ ExtraIdle

CoinNext ==
    \/ \E side \in CoinSides : HandleSelectSide(side)
    \/ FlipCoinNoSide
    \/ \E amount \in CoinStakes, byte \in 0..255, transferred \in BOOLEAN :
            FlipCoin(amount, byte, transferred)
    \/ CoinResetGame

SpecCoin == CoinInit /\ [][CoinNext]_vars

\* ========================================================== claims, SpecCoin

\* C40: every recorded coin flip history entry is self-consistent: won is
\* true iff the recorded result equals the recorded userChoice, and the
\* recorded result is the side the coin displayed in that round.
C40_HistoryEntryConsistent ==
    \A i \in DOMAIN coin.history :
        /\ coin.history[i].won <=> (coin.history[i].result = coin.history[i].userChoice)
        /\ coin.history[i].result = coin.shown[i]

====
